---------------------------- MODULE Spec2Model ----------------------------
(***************************************************************************)
(* powermetrics-go: the line parser / accumulator (metrics_process.go) and *)
(* the streaming driver (parser.go).                                       *)
(*                                                                         *)
(* Lines are TLA+ strings and are parsed character by character, the way   *)
(* the Go code does it (strings.* helpers and the regular expressions of   *)
(* the package).  float64 values are fixed-point integers in thousandths   *)
(* (15.5 is 15500); all numbers of the line vocabulary carry at most       *)
(* three decimals.                                                         *)
(***************************************************************************)
EXTENDS Integers, Sequences, FiniteSets, TLC

\* One unit of a float64 is Scale thousandths.
Scale == 10 * 10 * 10

NIL == "nil"

Min(S) == CHOOSE x \in S : \A y \in S : x <= y
Max(S) == CHOOSE x \in S : \A y \in S : x >= y

---------------------------------------------------------------------------
(* Go's strings package, on 1-based positions; 0 stands for Go's -1.       *)

Ch(s, i) == SubSeq(s, i, i)

HasPrefixAt(s, i, lit) ==
    /\ i >= 1
    /\ i + Len(lit) - 1 <= Len(s)
    /\ SubSeq(s, i, i + Len(lit) - 1) = lit

HasPrefix(s, lit) == HasPrefixAt(s, 1, lit)

Occurrences(s, sub) == {i \in 1..(Len(s) - Len(sub) + 1) : HasPrefixAt(s, i, sub)}

Index(s, sub) == IF Occurrences(s, sub) = {} THEN 0 ELSE Min(Occurrences(s, sub))

LastIndex(s, sub) == IF Occurrences(s, sub) = {} THEN 0 ELSE Max(Occurrences(s, sub))

Contains(s, sub) == Occurrences(s, sub) # {}

UpperLetters == "ABCDEFGHIJKLMNOPQRSTUVWXYZ"
LowerLetters == "abcdefghijklmnopqrstuvwxyz"

LowerCh(c) ==
    IF Contains(UpperLetters, c) THEN Ch(LowerLetters, Index(UpperLetters, c)) ELSE c

UpperCh(c) ==
    IF Contains(LowerLetters, c) THEN Ch(UpperLetters, Index(LowerLetters, c)) ELSE c

\* the concatenation of the strings chars[lo], ..., chars[hi]
RECURSIVE Join(_, _, _)
Join(chars, lo, hi) ==
    IF lo > hi THEN ""
    ELSE IF lo = hi THEN chars[lo]
    ELSE Join(chars, lo, (lo + hi) \div 2) \o Join(chars, (lo + hi) \div 2 + 1, hi)

ToLower(s) == Join([i \in 1..Len(s) |-> LowerCh(Ch(s, i))], 1, Len(s))

ToUpper(s) == Join([i \in 1..Len(s) |-> UpperCh(Ch(s, i))], 1, Len(s))

\* unicode.IsSpace on the characters a scanned line can hold
WhiteSpace == {" ", "\t"}

\* the positions of s whose character is not in cutset
Kept(s, cutset) == {i \in 1..Len(s) : Ch(s, i) \notin cutset}

TrimLeft(s, cutset) ==
    IF Kept(s, cutset) = {} THEN "" ELSE SubSeq(s, Min(Kept(s, cutset)), Len(s))

TrimRight(s, cutset) ==
    IF Kept(s, cutset) = {} THEN "" ELSE SubSeq(s, 1, Max(Kept(s, cutset)))

Trim(s, cutset) == TrimLeft(TrimRight(s, cutset), cutset)

TrimSpace(s) == Trim(s, WhiteSpace)

\* strings.Split(s, sep) for a one-character separator
RECURSIVE Split(_, _)
Split(s, sep) ==
    IF Index(s, sep) = 0 THEN <<s>>
    ELSE <<SubSeq(s, 1, Index(s, sep) - 1)>> \o Split(SubSeq(s, Index(s, sep) + 1, Len(s)), sep)

Digits == {"0", "1", "2", "3", "4", "5", "6", "7", "8", "9"}

DigitVal(c) == Index("0123456789", c) - 1

AllIn(s, set) == \A i \in 1..Len(s) : Ch(s, i) \in set

RECURSIVE DecimalValue(_)
DecimalValue(s) ==
    IF s = "" THEN 0 ELSE 10 * DecimalValue(SubSeq(s, 1, Len(s) - 1)) + DigitVal(Ch(s, Len(s)))

\* The digits a Go int holds: longer digit strings make strconv.Atoi fail.
MaxIntDigits == 18

\* strconv.Atoi on a string of digits: [ok, val]
Atoi(s) ==
    IF s # "" /\ AllIn(s, Digits) /\ Len(s) <= MaxIntDigits
    THEN [ok |-> TRUE, val |-> DecimalValue(s)]
    ELSE [ok |-> FALSE, val |-> 0]

\* The first three decimals of a fraction, as thousandths.
FracMillis(f) == DecimalValue(SubSeq(f \o "000", 1, 3))

\* strconv.ParseFloat(s, 64) on an unsigned decimal: [ok, val], val in thousandths
ParseFloat(s) ==
    LET dot  == Index(s, ".")
        ip   == IF dot = 0 THEN s ELSE SubSeq(s, 1, dot - 1)
        fp   == IF dot = 0 THEN "" ELSE SubSeq(s, dot + 1, Len(s))
    IN IF /\ AllIn(ip, Digits)
          /\ AllIn(fp, Digits)
          /\ ip \o fp # ""
       THEN [ok |-> TRUE, val |-> DecimalValue(ip) * Scale + FracMillis(fp)]
       ELSE [ok |-> FALSE, val |-> 0]

\* float64 NaN: a value no fixed-point number takes, which every ordered
\* comparison rejects
NaN == -999999999

\* a < b on float64
FloatLess(a, b) == a # NaN /\ b # NaN /\ a < b

\* strconv.ParseFloat(s, 64) on a decimal with an optional sign, or "NaN" in
\* any case (exponents, hex floats and infinities are not modelled)
ParseFloat64(s) ==
    IF ToLower(s) = "nan" THEN [ok |-> TRUE, val |-> NaN]
    ELSE IF s # "" /\ Ch(s, 1) = "-"
    THEN [ok |-> ParseFloat(SubSeq(s, 2, Len(s))).ok,
          val |-> 0 - ParseFloat(SubSeq(s, 2, Len(s))).val]
    ELSE IF s # "" /\ Ch(s, 1) = "+" THEN ParseFloat(SubSeq(s, 2, Len(s)))
    ELSE ParseFloat(s)

---------------------------------------------------------------------------
(* Go regexp (leftmost-first, backtracking order) for the fragment the     *)
(* package's patterns use.  A pattern is a sequence of items:              *)
(*   lit   a literal string                                                *)
(*   plus  one or more characters of a class, greedy                       *)
(*   star  zero or more characters of a class, greedy                      *)
(*   lazy  one or more characters of a class, shortest first  (.+?)        *)
(*   alt   one of several literals, tried in order                         *)
(*   opt   an optional sub-pattern, taken when it can be      (?:...)?     *)
(*   open / close   the parentheses of a capture group                     *)
(*   bol / eol      ^ and $                                                *)
(* A class is [neg, set]: the characters in set, or those not in it.       *)

Lit(x)      == [t |-> "lit",   s |-> x,  cls |-> {}, opts |-> <<>>, sub |-> <<>>]
Plus(c)     == [t |-> "plus",  s |-> "", cls |-> c,  opts |-> <<>>, sub |-> <<>>]
Star(c)     == [t |-> "star",  s |-> "", cls |-> c,  opts |-> <<>>, sub |-> <<>>]
Lazy(c)     == [t |-> "lazy",  s |-> "", cls |-> c,  opts |-> <<>>, sub |-> <<>>]
Alt(o)      == [t |-> "alt",   s |-> "", cls |-> {}, opts |-> o,    sub |-> <<>>]
Opt(p)      == [t |-> "opt",   s |-> "", cls |-> {}, opts |-> <<>>, sub |-> p]
Open        == [t |-> "open",  s |-> "", cls |-> {}, opts |-> <<>>, sub |-> <<>>]
Close       == [t |-> "close", s |-> "", cls |-> {}, opts |-> <<>>, sub |-> <<>>]
Bol         == [t |-> "bol",   s |-> "", cls |-> {}, opts |-> <<>>, sub |-> <<>>]
Eol         == [t |-> "eol",   s |-> "", cls |-> {}, opts |-> <<>>, sub |-> <<>>]

Class(set)    == [neg |-> FALSE, set |-> set]
NotClass(set) == [neg |-> TRUE,  set |-> set]

InClass(c, cls) == IF cls.neg THEN c \notin cls.set ELSE c \in cls.set

ClsDigit    == Class(Digits)                                   \* \d, [0-9]
ClsDigitDot == Class(Digits \cup {"."})                        \* [\d.]
ClsSpace    == Class(WhiteSpace)                               \* \s
ClsBlank    == Class({" "})                                    \* ' '
ClsAny      == NotClass({})                                    \* .
ClsNotParen == NotClass({")"})                                 \* [^)]
ClsClusterName ==                                              \* [A-Z0-9-]
    Class(Digits \cup {"-"} \cup {Ch(UpperLetters, i) : i \in 1..Len(UpperLetters)})

Capture(items) == <<Open>> \o items \o <<Close>>

\* [0-9]+(?:\.[0-9]+)?
DecimalPattern == <<Plus(ClsDigit), Opt(<<Lit("."), Plus(ClsDigit)>>)>>

NoMatch == [ok |-> FALSE, marks |-> <<>>, end |-> 0]

\* the last position of the longest run of class characters from i (i-1: none)
RunEnd(s, i, cls) ==
    Min({j \in i..(Len(s) + 1) : j > Len(s) \/ ~InClass(Ch(s, j), cls)} \cup {Len(s) + 1}) - 1

RECURSIVE CountMarks(_)
CountMarks(pat) ==
    IF pat = <<>> THEN 0
    ELSE (CASE pat[1].t \in {"open", "close"} -> 1
            [] pat[1].t = "opt" -> CountMarks(pat[1].sub)
            [] OTHER -> 0) + CountMarks(Tail(pat))

Zeros(n) == [k \in 1..n |-> 0]

RECURSIVE MatchAt(_, _, _)
RECURSIVE TryRun(_, _, _, _, _, _)
RECURSIVE TryAlt(_, _, _, _)

\* pat matched against s from position i: [ok, marks, end]; marks are the
\* positions of the capture parentheses in pattern order (0: group not taken),
\* end is the position after the match.
MatchAt(pat, s, i) ==
    IF pat = <<>> THEN [ok |-> TRUE, marks |-> <<>>, end |-> i]
    ELSE LET it == pat[1]
             rest == Tail(pat)
         IN CASE it.t = "lit" ->
                    IF HasPrefixAt(s, i, it.s) THEN MatchAt(rest, s, i + Len(it.s))
                    ELSE NoMatch
              [] it.t = "plus" -> TryRun(rest, s, i, RunEnd(s, i, it.cls), i, -1)
              [] it.t = "star" -> TryRun(rest, s, i, RunEnd(s, i, it.cls), i - 1, -1)
              [] it.t = "lazy" -> TryRun(rest, s, i, i, RunEnd(s, i, it.cls), 1)
              [] it.t = "alt"  -> TryAlt(it.opts, rest, s, i)
              [] it.t = "opt"  ->
                    LET taken == MatchAt(it.sub \o rest, s, i)
                        skipped == MatchAt(rest, s, i)
                    IN IF taken.ok THEN taken
                       ELSE IF skipped.ok
                            THEN [skipped EXCEPT !.marks = Zeros(CountMarks(it.sub)) \o @]
                            ELSE NoMatch
              [] it.t \in {"open", "close"} ->
                    LET r == MatchAt(rest, s, i)
                    IN IF r.ok THEN [r EXCEPT !.marks = <<i>> \o @] ELSE NoMatch
              [] it.t = "bol" -> IF i = 1 THEN MatchAt(rest, s, i) ELSE NoMatch
              [] it.t = "eol" -> IF i = Len(s) + 1 THEN MatchAt(rest, s, i) ELSE NoMatch

\* the run ends at j, tried from j towards last in steps of step
TryRun(rest, s, i, j, last, step) ==
    IF (step < 0 /\ j < last) \/ (step > 0 /\ j > last) THEN NoMatch
    ELSE LET r == MatchAt(rest, s, j + 1)
         IN IF r.ok THEN r ELSE TryRun(rest, s, i, j + step, last, step)

TryAlt(opts, rest, s, i) ==
    IF opts = <<>> THEN NoMatch
    ELSE LET r == IF HasPrefixAt(s, i, opts[1])
                  THEN MatchAt(rest, s, i + Len(opts[1])) ELSE NoMatch
         IN IF r.ok THEN r ELSE TryAlt(Tail(opts), rest, s, i)

\* the leftmost match of pat in s at or after position i
FindFrom(pat, s, i) ==
    LET starts == {k \in i..(Len(s) + 1) : MatchAt(pat, s, k).ok}
    IN IF starts = {} THEN NoMatch
       ELSE [MatchAt(pat, s, Min(starts)) EXCEPT !.marks = <<Min(starts)>> \o @]

\* the text of capture group g of match r (marks[1] is the start of the match)
Group(s, r, g) ==
    IF r.marks[2 * g] = 0 THEN "" ELSE SubSeq(s, r.marks[2 * g], r.marks[2 * g + 1] - 1)

\* regexp.FindStringSubmatch: <<>> (nil) or <<whole, group 1, group 2, ...>>
FindStringSubmatch(pat, s) ==
    LET r == FindFrom(pat, s, 1)
    IN IF ~r.ok THEN <<>>
       ELSE <<SubSeq(s, r.marks[1], r.end - 1)>>
            \o [g \in 1..((Len(r.marks) - 1) \div 2) |-> Group(s, r, g)]

\* regexp.FindAllStringSubmatch(s, -1): the successive non-overlapping matches
RECURSIVE FindAllFrom(_, _, _)
FindAllFrom(pat, s, i) ==
    LET r == FindFrom(pat, s, i)
    IN IF ~r.ok THEN <<>>
       ELSE << <<SubSeq(s, r.marks[1], r.end - 1)>>
               \o [g \in 1..((Len(r.marks) - 1) \div 2) |-> Group(s, r, g)] >>
            \o FindAllFrom(pat, s, IF r.end > r.marks[1] THEN r.end ELSE r.end + 1)

FindAllStringSubmatch(pat, s) == FindAllFrom(pat, s, 1)

---------------------------------------------------------------------------
(* The package's regular expressions (metrics_process.go, var block and    *)
(* the patterns compiled inside updateCPUInfo).                            *)

\* ^pid\s+(\d+)\s+(.+?)\s+([0-9]+(?:\.[0-9]+)?)\s*(us|ms|s)(?:\s+\(([0-9]+(?:\.[0-9]+)?)\s*%\))?(?:\s+.*)?$
procLineRegex ==
    <<Bol, Lit("pid"), Plus(ClsSpace)>> \o Capture(<<Plus(ClsDigit)>>)
    \o <<Plus(ClsSpace)>> \o Capture(<<Lazy(ClsAny)>>)
    \o <<Plus(ClsSpace)>> \o Capture(DecimalPattern)
    \o <<Star(ClsSpace)>> \o Capture(<<Alt(<<"us", "ms", "s">>)>>)
    \o <<Opt(<<Plus(ClsSpace), Lit("(")>> \o Capture(DecimalPattern)
             \o <<Star(ClsSpace), Lit("%)")>>),
         Opt(<<Plus(ClsSpace), Star(ClsAny)>>),
         Eol>>

\* ([0-9]+(?:\.[0-9]+)?)
numberExtractor == Capture(DecimalPattern)

\* ([A-Z0-9-]+)-Cluster Online: ([\d.]+)%
clusterOnlineRegex ==
    Capture(<<Plus(ClsClusterName)>>) \o <<Lit("-Cluster Online: ")>>
    \o Capture(<<Plus(ClsDigitDot)>>) \o <<Lit("%")>>

\* ([A-Z0-9-]+)-Cluster HW active frequency: ([\d.]+) MHz
clusterHWFreqRegex ==
    Capture(<<Plus(ClsClusterName)>>) \o <<Lit("-Cluster HW active frequency: ")>>
    \o Capture(<<Plus(ClsDigitDot)>>) \o <<Lit(" MHz")>>

\* (\d+) MHz: +([\d.]+)%
cpuFreqResidencyRegex ==
    Capture(<<Plus(ClsDigit)>>) \o <<Lit(" MHz:"), Plus(ClsBlank)>>
    \o Capture(<<Plus(ClsDigitDot)>>) \o <<Lit("%")>>

\* Battery: percent_charge: ([\d.]+)
batteryRegex == <<Lit("Battery: percent_charge: ")>> \o Capture(<<Plus(ClsDigitDot)>>)

\* out: ([\d.]+) packets/s, ([\d.]+) bytes/s
networkRegex ==
    <<Lit("out: ")>> \o Capture(<<Plus(ClsDigitDot)>>) \o <<Lit(" packets/s, ")>>
    \o Capture(<<Plus(ClsDigitDot)>>) \o <<Lit(" bytes/s")>>

\* in: +([\d.]+) packets/s, ([\d.]+) bytes/s
networkInRegex ==
    <<Lit("in:"), Plus(ClsBlank)>> \o Capture(<<Plus(ClsDigitDot)>>)
    \o <<Lit(" packets/s, ")>> \o Capture(<<Plus(ClsDigitDot)>>) \o <<Lit(" bytes/s")>>

\* read: ([\d.]+) ops/s ([\d.]+) KBytes/s
diskReadRegex ==
    <<Lit("read: ")>> \o Capture(<<Plus(ClsDigitDot)>>) \o <<Lit(" ops/s ")>>
    \o Capture(<<Plus(ClsDigitDot)>>) \o <<Lit(" KBytes/s")>>

\* write: ([\d.]+) ops/s ([\d.]+) KBytes/s
diskWriteRegex ==
    <<Lit("write: ")>> \o Capture(<<Plus(ClsDigitDot)>>) \o <<Lit(" ops/s ")>>
    \o Capture(<<Plus(ClsDigitDot)>>) \o <<Lit(" KBytes/s")>>

\* CPU (\d+):
interruptRegex == <<Lit("CPU ")>> \o Capture(<<Plus(ClsDigit)>>) \o <<Lit(":")>>

\* Total IRQ: ([\d.]+) interrupts/sec
interruptTotalRegex ==
    <<Lit("Total IRQ: ")>> \o Capture(<<Plus(ClsDigitDot)>>) \o <<Lit(" interrupts/sec")>>

\* \|-> (IPI|TIMER): ([\d.]+) interrupts/sec
interruptIPITimerRegex ==
    <<Lit("|-> ")>> \o Capture(<<Alt(<<"IPI", "TIMER">>)>>) \o <<Lit(": ")>>
    \o Capture(<<Plus(ClsDigitDot)>>) \o <<Lit(" interrupts/sec")>>

\* GPU HW active frequency: ([\d.]+) MHz
gpuFreqRegex ==
    <<Lit("GPU HW active frequency: ")>> \o Capture(<<Plus(ClsDigitDot)>>) \o <<Lit(" MHz")>>

\* GPU HW active residency: +([\d.]+)%
gpuHwActiveResidencyRegex ==
    <<Lit("GPU HW active residency:"), Plus(ClsBlank)>>
    \o Capture(<<Plus(ClsDigitDot)>>) \o <<Lit("%")>>

\* GPU idle residency: +([\d.]+)%
gpuIdleResidencyRegex ==
    <<Lit("GPU idle residency:"), Plus(ClsBlank)>>
    \o Capture(<<Plus(ClsDigitDot)>>) \o <<Lit("%")>>

\* GPU SW (?:requested state|state): \(([^)]+)\)
gpuSWStateRegex ==
    <<Lit("GPU SW "), Alt(<<"requested state", "state">>), Lit(": (")>>
    \o Capture(<<Plus(ClsNotParen)>>) \o <<Lit(")")>>

\* CPU (\d+) frequency: ([\d.]+) MHz
cpuFrequencyRegex ==
    <<Lit("CPU ")>> \o Capture(<<Plus(ClsDigit)>>) \o <<Lit(" frequency: ")>>
    \o Capture(<<Plus(ClsDigitDot)>>) \o <<Lit(" MHz")>>

\* CPU (\d+) active residency: +([\d.]+)%
cpuActiveResidencyRegex ==
    <<Lit("CPU ")>> \o Capture(<<Plus(ClsDigit)>>)
    \o <<Lit(" active residency:"), Plus(ClsBlank)>>
    \o Capture(<<Plus(ClsDigitDot)>>) \o <<Lit("%")>>

\* CPU (\d+) idle residency: +([\d.]+)%
cpuIdleResidencyRegex ==
    <<Lit("CPU ")>> \o Capture(<<Plus(ClsDigit)>>)
    \o <<Lit(" idle residency:"), Plus(ClsBlank)>>
    \o Capture(<<Plus(ClsDigitDot)>>) \o <<Lit("%")>>

\* CPU (\d+) down residency: +([\d.]+)%
cpuDownResidencyRegex ==
    <<Lit("CPU ")>> \o Capture(<<Plus(ClsDigit)>>)
    \o <<Lit(" down residency:"), Plus(ClsBlank)>>
    \o Capture(<<Plus(ClsDigitDot)>>) \o <<Lit("%")>>

---------------------------------------------------------------------------
(* The stateless extractors.                                               *)

\* a Go map as a function; EmptyMap is the map make() returns
EmptyMap == <<>>

MapPut(m, k, v) == [x \in (DOMAIN m) \cup {k} |-> IF x = k THEN v ELSE m[x]]

clampPercent(value) ==
    IF FloatLess(value, 0) THEN 0
    ELSE IF FloatLess(100 * Scale, value) THEN 100 * Scale
    ELSE value

\* tokens is the set of the variadic arguments
hasAll(str, tokens) == \A token \in tokens : Contains(str, token)

hasNone(str, tokens) == \A token \in tokens : ~Contains(str, token)

hasAny(str, tokens) == \E token \in tokens : Contains(str, token)

\* value in thousandths of the unit; the result is in nanoseconds
convertToNanoseconds(value, unit) ==
    CASE ToLower(unit) = "us" -> value
      [] ToLower(unit) = "ms" -> value * Scale
      [] ToLower(unit) = "s"  -> value * Scale * Scale
      [] OTHER -> 0

\* window in nanoseconds, a multiple of 100 microseconds or not positive;
\* (activeNs / window) * 100 in thousandths is activeNs / (window / 100000)
\* parsed: strconv.ParseFloat(explicitPercent, 64)
\* deriveBusyPercent with the guard of the window ahead of the explicit percent
deriveBusyPercentWindowFirst(activeNs, explicitPercent, parsed, window) ==
    IF window <= 0 \/ activeNs = 0 THEN 0
    ELSE IF explicitPercent # "" /\ parsed.ok
    THEN clampPercent(parsed.val)
    ELSE clampPercent(activeNs \div (window \div (100 * Scale)))

deriveBusyPercent(activeNs, explicitPercent, parsed, window) ==
    IF explicitPercent # "" /\ parsed.ok
    THEN clampPercent(parsed.val)
    ELSE IF window <= 0 \/ activeNs = 0 THEN 0
    ELSE clampPercent(activeNs \div (window \div (100 * Scale)))

NotFound == [val |-> 0, ok |-> FALSE]

\* segment[:idx] when idx is the position of "(" in segment, else segment
BeforeParen(segment) ==
    IF Index(segment, "(") # 0 THEN SubSeq(segment, 1, Index(segment, "(") - 1)
    ELSE segment

\* segment[colonIdx+1:] for the last ":" of segment, else segment
AfterLastColon(segment) ==
    IF LastIndex(segment, ":") # 0
    THEN SubSeq(segment, LastIndex(segment, ":") + 1, Len(segment))
    ELSE segment

\* line[colonIdx+1:] for the first ":" of line, else line
AfterFirstColon(segment) ==
    IF Index(segment, ":") # 0
    THEN SubSeq(segment, Index(segment, ":") + 1, Len(segment))
    ELSE segment

\* strconv.ParseFloat of group 1 of the match matches[k], when there is a match
NumberOf(matches, k) ==
    IF Len(matches) = 0 THEN NotFound
    ELSE IF ~ParseFloat(matches[k][2]).ok THEN NotFound
    ELSE [val |-> ParseFloat(matches[k][2]).val, ok |-> TRUE]

LastNumber(matches) == NumberOf(matches, Len(matches))

FirstNumber(matches) == NumberOf(matches, 1)

\* parseTrailingValue taking the first number of the segment
parseTrailingValueFirst(line, suffix) ==
    IF LastIndex(ToLower(line), ToLower(suffix)) = 0 THEN NotFound
    ELSE FirstNumber(FindAllStringSubmatch(numberExtractor,
            AfterLastColon(BeforeParen(
                SubSeq(line, 1, LastIndex(ToLower(line), ToLower(suffix)) - 1)))))

parseTrailingValue(line, suffix) ==
    IF LastIndex(ToLower(line), ToLower(suffix)) = 0 THEN NotFound
    ELSE LastNumber(FindAllStringSubmatch(numberExtractor,
            AfterLastColon(BeforeParen(
                SubSeq(line, 1, LastIndex(ToLower(line), ToLower(suffix)) - 1)))))

\* segment[:idx] for the first occurrence of suffix, numbers extracted
LeadingValue(segment, suffix) ==
    IF Index(ToLower(segment), ToLower(suffix)) = 0 THEN NotFound
    ELSE FirstNumber(FindAllStringSubmatch(numberExtractor,
            SubSeq(segment, 1, Index(ToLower(segment), ToLower(suffix)) - 1)))

parseLeadingValueAfterColon(line, suffix) ==
    LeadingValue(BeforeParen(AfterFirstColon(line)), suffix)

RECURSIVE FreqResidencyFrom(_, _)
FreqResidencyFrom(matches, residencies) ==
    IF matches = <<>> THEN residencies
    ELSE LET match == matches[1]
             freq == ParseFloat(match[2])
             percent == ParseFloat(match[3])
         IN FreqResidencyFrom(Tail(matches),
                IF freq.ok /\ percent.ok THEN MapPut(residencies, freq.val, percent.val)
                ELSE residencies)

parseFreqResidency(freqDataStr) ==
    FreqResidencyFrom(FindAllStringSubmatch(cpuFreqResidencyRegex, freqDataStr), EmptyMap)

RECURSIVE GPUStatesFrom(_, _, _)
GPUStatesFrom(pairs, i, states) ==
    IF i > Len(pairs) THEN states
    ELSE GPUStatesFrom(pairs, i + 3,
            IF i + 2 <= Len(pairs)
               /\ HasPrefix(Trim(pairs[i], {":", " "}), "P")
               /\ ParseFloat(TrimRight(pairs[i + 2], {"%"})).ok
            THEN MapPut(states, Trim(pairs[i], {":", " "}),
                        ParseFloat(TrimRight(pairs[i + 2], {"%"})).val)
            ELSE states)

parseGPUStates(stateStr) == GPUStatesFrom(Split(stateStr, " "), 1, EmptyMap)

\* line[openParenIdx+1:] with the closing parentheses trimmed, parsed as
\* frequency residencies (updateCPUInfo, updateGPUResidencyInfo)
ParenFreqResidency(line) ==
    parseFreqResidency(TrimRight(SubSeq(line, Index(line, "(") + 1, Len(line)), {")"}))

---------------------------------------------------------------------------
(* The input lines of the model, and what the stateless extractors find in *)
(* each of them.  Everything ParseLine computes from the line alone is     *)
(* computed here once per line; the updaters below read it from f, the     *)
(* analysed line: f.re.x is x.FindStringSubmatch(line), f.trailing[u] is   *)
(* parseTrailingValue(line, u), f.tokens are the substrings of the         *)
(* lower-cased line that hasAll / hasNone / hasAny are asked about.        *)

ParserLines ==
    { "CPU Power: 15.5 W",
      "CPU Power: 20 W",
      "System uptime: 10 days",
      "**** GPU usage ****",
      "E-Cluster Online: 100%",
      "P0-Cluster Online: 150%",
      "Battery: percent_charge: 36",
      "GPU SW requested state: (P1 : 100% P2 : 0%)",
      "GPU Busy: 150%",
      "out: 57.75 packets/s, 4586.65 bytes/s",
      "GPU idle residency:  98.37%",
      "CPU 0 idle residency: 120.5%",
      "pid 1234 Safari 5.2ms (85.5%)",
      "pid 77 WindowServer 12us",
      "   ",
      "--- sample ---" }

StreamLines ==
    { "CPU Power: 15.5 W",
      "CPU Power: 20 W",
      "System uptime: 10 days",
      "pid 1234 Safari 5.2ms (85.5%)" }

\* lines that create and update the entities of the accumulator maps, and
\* lines whose numbers strconv rejects
AccumulatorLines ==
    { "E-Cluster Online: 100%",
      "E-Cluster Online: 50%",
      "P0-Cluster Online: 150%",
      "E-Cluster HW active frequency: 1200 MHz",
      "P0-Cluster HW active frequency: 2400 MHz",
      "CPU 0 frequency: 1338 MHz",
      "CPU 1:",
      "Total IRQ: 10 interrupts/sec",
      "E-Cluster HW active residency: 50% (600 MHz: 10%)",
      "out: 57.75 packets/s, 4586.65 bytes/s",
      "read: 1.5 ops/s 2.5 KBytes/s",
      "pid 99999999999999999999 Safari 5.2ms",
      "pid abc Safari 5.2ms",
      "E-Cluster Online: 1.2.3%" }

\* lines that report one scalar, a power in W or mW, or the GPU's states
ScalarLines ==
    { "CPU Power: 954 mW",
      "CPU Power: 15.5 W",
      "GPU Power: 20 mW",
      "GPU Power: 2 W",
      "ANE Power: 5 mW",
      "GPU HW active frequency: 444 MHz",
      "GPU SW state: (SW_P1 : 1.6% SW_P2 :   0%)",
      "GPU SW requested state: (P1 : 100% P2 :   0%)",
      "Battery: percent_charge: 36",
      "System uptime: 10 days" }

\* CPUs of one pass of interrupt blocks
MaxCPUs == 2

\* the header of the interrupt block of CPU n
HeaderLine(n) == "CPU " \o SubSeq("0123456789", n + 1, n + 1) \o ":"

\* the sub-lines of an interrupt block and the rate each reports
TotalLines ==
    [raw \in {"Total IRQ: 0.00 interrupts/sec"} |-> 0]
    @@ [raw \in {"Total IRQ: 10.5 interrupts/sec"} |-> (105 * Scale) \div 10]
    @@ [raw \in {"Total IRQ: 20 interrupts/sec"} |-> 20 * Scale]

IPILines ==
    [raw \in {"|-> IPI: 0.00 interrupts/sec"} |-> 0]
    @@ [raw \in {"|-> IPI: 3 interrupts/sec"} |-> 3 * Scale]

TIMERLines ==
    [raw \in {"|-> TIMER: 0.00 interrupts/sec"} |-> 0]
    @@ [raw \in {"|-> TIMER: 7 interrupts/sec"} |-> 7 * Scale]

InterruptLines ==
    {HeaderLine(n) : n \in 0..MaxCPUs} \cup DOMAIN TotalLines \cup DOMAIN IPILines
        \cup DOMAIN TIMERLines

\* the interrupt blocks of CPU n: header, Total IRQ, IPI, TIMER
Blocks(n) ==
    {<<HeaderLine(n), t, i, m>> :
        t \in DOMAIN TotalLines, i \in DOMAIN IPILines, m \in DOMAIN TIMERLines}

\* the passes over CPUs n, n+1, ..., count - 1, in that order
RECURSIVE PassesFrom(_, _)
PassesFrom(n, count) ==
    IF n >= count THEN {<<>>}
    ELSE {b \o rest : b \in Blocks(n), rest \in PassesFrom(n + 1, count)}

\* one pass of interrupt blocks in increasing CPU order, for 1..MaxCPUs CPUs
Passes == UNION {PassesFrom(0, count) : count \in 1..MaxCPUs}

\* lines of one sample: both directions of the network and the disk, one line
\* for each sub-structure of a snapshot, GPU frequencies and process lines,
\* one of them of a process whose name reads as an interrupt header
SampleLines ==
    { "out: 57.75 packets/s, 4586.65 bytes/s",
      "in: 12 packets/s, 900 bytes/s",
      "out: 0 packets/s, 0 bytes/s",
      "read: 1.5 ops/s 2.5 KBytes/s",
      "write: 3 ops/s 4 KBytes/s",
      "CPU Power: 15.5 W",
      "CPU 1:",
      "E-Cluster Online: 100%",
      "E-Cluster HW active residency: 50% (600 MHz: 10%)",
      "GPU HW active frequency: 444 MHz",
      "GPU HW active frequency: 900 MHz",
      "pid 1234 Safari 5.2ms (85.5%)",
      "pid 501 CPU 3: 12ms" }

\* temperature lines labelled GPU and the degrees each reports, in thousandths
GPUTemperatureLines ==
    [raw \in {"GPU die temperature: 45.2 C"} |-> (452 * Scale) \div 10]
    @@ [raw \in {"GPU temperature: 61 C"} |-> 61 * Scale]
    @@ [raw \in {"GPU die temperature: 47 C"} |-> 47 * Scale]

\* ... and those labelled CPU
CPUTemperatureLines ==
    [raw \in {"CPU die temperature: 50 C"} |-> 50 * Scale]
    @@ [raw \in {"CPU temperature: 70 C"} |-> 70 * Scale]
    @@ [raw \in {"CPU die temperature: 52 C"} |-> 52 * Scale]

TemperatureLines ==
    DOMAIN GPUTemperatureLines \cup DOMAIN CPUTemperatureLines \cup {"CPU Power: 15.5 W"}

AllLines ==
    ParserLines \cup StreamLines \cup AccumulatorLines \cup ScalarLines \cup InterruptLines
        \cup SampleLines \cup TemperatureLines

Regexes ==
    [ procLine        |-> procLineRegex,
      clusterOnline   |-> clusterOnlineRegex,
      clusterHWFreq   |-> clusterHWFreqRegex,
      cpuFrequency    |-> cpuFrequencyRegex,
      interrupt       |-> interruptRegex,
      cpuActive       |-> cpuActiveResidencyRegex,
      cpuIdle         |-> cpuIdleResidencyRegex,
      cpuDown         |-> cpuDownResidencyRegex,
      networkOut      |-> networkRegex,
      networkIn       |-> networkInRegex,
      diskRead        |-> diskReadRegex,
      diskWrite       |-> diskWriteRegex,
      interruptTotal  |-> interruptTotalRegex,
      interruptIPITimer |-> interruptIPITimerRegex,
      gpuFreq         |-> gpuFreqRegex,
      gpuHwActive     |-> gpuHwActiveResidencyRegex,
      gpuIdle         |-> gpuIdleResidencyRegex,
      gpuSWState      |-> gpuSWStateRegex,
      battery         |-> batteryRegex ]

\* the substrings parseSystemMetrics and updateGPUResidencyInfo test for
Tokens ==
    { "cpu", "gpu", "ane", "dram", "power", "frequency", "busy",
      "hw active residency", "idle residency", "temperature", "temp", "die",
      "junction", "package", "sensor", "processor", "graphics", "c" }

\* the units parseTrailingValue is called with
Suffixes == {"w", "mW", "mhz", "%", "c"}

Banners ==
    { "**** Processor usage ****",
      "**** Network activity ****",
      "**** Disk activity ****",
      "****  Interrupt distribution ****",
      "**** GPU usage ****",
      "**** Battery and backlight usage ****" }

\* fn as a table: the same function, every value computed once
RECURSIVE TabulateOn(_, _)
TabulateOn(fn, S) ==
    IF S = {} THEN <<>>
    ELSE LET x == CHOOSE y \in S : TRUE
         IN (x :> fn[x]) @@ TabulateOn(fn, S \ {x})

Tabulate(fn) == TabulateOn(fn, DOMAIN fn)

\* what parseGPUProcessLine reads from the line: matches is
\* procLineRegex.FindStringSubmatch(line)
ProcessFields(matches) ==
    IF matches = <<>> THEN [matched |-> FALSE]
    ELSE [ matched    |-> TRUE,
           pid        |-> Atoi(matches[2]),
           name       |-> Trim(TrimSpace(matches[3]), {"(", ")"}),
           value      |-> ParseFloat(matches[4]),
           activeNs   |-> convertToNanoseconds(ParseFloat(matches[4]).val, matches[5]),
           percentStr |-> matches[6],
           percent    |-> ParseFloat(matches[6]) ]

Analyse(raw) ==
    LET line == TrimSpace(raw)
        lower == ToLower(line)
        sw == FindStringSubmatch(gpuSWStateRegex, line)
    IN [ line     |-> line,
         banner   |-> \E b \in Banners : Contains(line, b),
         tokens   |-> {t \in Tokens : hasAll(lower, {t})},
         re       |-> Tabulate([r \in DOMAIN Regexes |-> FindStringSubmatch(Regexes[r], line)]),
         trailing |-> Tabulate([u \in Suffixes |-> parseTrailingValue(line, u)]),
         leadingPercent |-> parseLeadingValueAfterColon(line, "%"),
         hasParen |-> Index(line, "(") # 0,
         parenResidency |-> ParenFreqResidency(line),
         firstField |-> TrimSpace(Split(line, " ")[1]),
         clusterHWActive |-> Contains(line, "-Cluster HW active residency:"),
         hasColon |-> Len(Split(line, ":")) >= 2,
         requested |-> Contains(line, "requested state"),
         process  |-> ProcessFields(FindStringSubmatch(procLineRegex, line)),
         gpuStates |-> IF sw # <<>> THEN parseGPUStates(sw[2]) ELSE EmptyMap ]

Analysis == Tabulate([raw \in AllLines |-> Analyse(raw)])

---------------------------------------------------------------------------
(* The Parser (parser.go) and the accumulator updaters.                    *)
(*                                                                         *)
(* A parser value p holds the fields of the Go struct.  The structs the    *)
(* parser reaches through a pointer that is nil at first (networkInfo,     *)
(* diskInfo) carry alloc: FALSE is the nil pointer.  p.wrote is auxiliary: *)
(* it is cleared when ParseLine starts and set by every assignment an      *)
(* updater makes to the accumulator.                                       *)

ZeroSystemSample ==
    [ CPUPowerWatts |-> 0, CPUFrequencyMHz |-> 0, GPUBusyPercent |-> 0,
      GPUPowerWatts |-> 0, GPUFrequencyMHz |-> 0, GPUTemperatureC |-> 0,
      CPUTemperatureC |-> 0, ANEBusyPercent |-> 0, ANEPowerWatts |-> 0,
      DRAMPowerWatts |-> 0, BatteryPercent |-> 0 ]

NilNetworkMetrics ==
    [ alloc |-> FALSE, InPacketsPerSec |-> 0, InBytesPerSec |-> 0,
      OutPacketsPerSec |-> 0, OutBytesPerSec |-> 0 ]

NilDiskMetrics ==
    [ alloc |-> FALSE, ReadOpsPerSec |-> 0, ReadBytesPerSec |-> 0,
      WriteOpsPerSec |-> 0, WriteBytesPerSec |-> 0 ]

\* time.Second in nanoseconds
Second == Scale * Scale * Scale

\* the SampleWindow normalizeConfig leaves in the configuration
normalizeSampleWindow(window) == IF window <= 0 THEN Second ELSE window

defaultPowermetricsPath == "/usr/bin/powermetrics"

defaultPowermetricsArgs == <<"--samplers", "default", "--show-process-gpu", "-i", "1000">>

\* fmt.Sprintf("%d", n) for n >= 0
RECURSIVE FormatInt(_)
FormatInt(n) ==
    IF n < 10 THEN SubSeq("0123456789", n + 1, n + 1)
    ELSE FormatInt(n \div 10) \o SubSeq("0123456789", (n % 10) + 1, (n % 10) + 1)

\* window.Milliseconds() of a window in nanoseconds
Milliseconds(window) == window \div (Scale * Scale)

\* the least i < len(args)-1 with args[i] == "-i", counted from 1; 0 if none
FirstInterval(elems) ==
    IF \E i \in 1..(Len(elems) - 1) : elems[i] = "-i"
    THEN CHOOSE i \in 1..(Len(elems) - 1) :
            elems[i] = "-i" /\ \A j \in 1..(i - 1) : elems[j] # "-i"
    ELSE 0

\* A slice is [array, elems]: the backing array it points into and its
\* elements.  An assignment to args[i+1] writes into that array; the append
\* returns a slice of the same array grown or reallocated, which no other
\* slice of the model sees.
ensureIntervalArgument(args, window) ==
    IF FirstInterval(args.elems) # 0
    THEN [array |-> args.array,
          elems |-> [args.elems EXCEPT ![FirstInterval(args.elems) + 1] =
                                           FormatInt(Milliseconds(window))],
          written |-> TRUE]
    ELSE [array |-> args.array,
          elems |-> args.elems \o <<"-i", FormatInt(Milliseconds(window))>>,
          written |-> FALSE]

\* The result of normalizeConfig(cfg) and the elements of the caller's
\* argument slice after the call.
NormalizedFrom(cfg, args) ==
    [ cfg    |-> [ PowermetricsPath |-> IF cfg.PowermetricsPath = ""
                                        THEN defaultPowermetricsPath
                                        ELSE cfg.PowermetricsPath,
                   PowermetricsArgs |->
                       ensureIntervalArgument(args,
                           normalizeSampleWindow(cfg.SampleWindow)).elems,
                   SampleWindow     |-> normalizeSampleWindow(cfg.SampleWindow) ],
      caller |-> IF args.array = "caller"
                    /\ ensureIntervalArgument(args,
                           normalizeSampleWindow(cfg.SampleWindow)).written
                 THEN ensureIntervalArgument(args,
                           normalizeSampleWindow(cfg.SampleWindow)).elems
                 ELSE cfg.PowermetricsArgs ]

\* args = append([]string{}, ...): a copy of the defaults or of the caller's
normalizeConfig(cfg) ==
    NormalizedFrom(cfg,
        IF Len(cfg.PowermetricsArgs) = 0
        THEN [array |-> "copy", elems |-> defaultPowermetricsArgs]
        ELSE [array |-> "copy", elems |-> cfg.PowermetricsArgs])

NewParser(sampleWindow) ==
    [ config             |-> [SampleWindow |-> normalizeSampleWindow(sampleWindow)],
      system             |-> ZeroSystemSample,
      frequencyMHz       |-> 0,
      processSamples     |-> <<>>,
      clusterInfo        |-> EmptyMap,
      cpuResidencies     |-> EmptyMap,
      clusterResidencies |-> EmptyMap,
      networkInfo        |-> NilNetworkMetrics,
      diskInfo           |-> NilDiskMetrics,
      interruptInfo      |-> EmptyMap,
      gpuResidency       |-> [ HWActiveResidency |-> 0,
                               HWActiveFreqResidency |-> EmptyMap,
                               SWRequestedStates |-> EmptyMap,
                               SWStates |-> EmptyMap,
                               IdleResidency |-> 0,
                               PowerMilliwatts |-> 0 ],
      wrote              |-> FALSE ]

\* the accumulator proper: p without the auxiliary flag
Accumulator(p) == [p EXCEPT !.wrote = FALSE]

\* a parser that keeps the latest cluster only: the map is replaced
ensureClusterEvicting(p, name) ==
    IF name \in DOMAIN p.clusterInfo THEN p
    ELSE [p EXCEPT !.clusterInfo =
                       MapPut(EmptyMap, name,
                              [ Name |-> name,
                                Type |-> IF HasPrefix(ToUpper(name), "E-")
                                         THEN "Efficiency" ELSE "Performance",
                                OnlinePercent |-> 0,
                                HWActiveFreq |-> 0 ]),
                   !.wrote = TRUE]

ensureCluster(p, name) ==
    IF name \in DOMAIN p.clusterInfo THEN p
    ELSE [p EXCEPT !.clusterInfo =
                       MapPut(@, name,
                              [ Name |-> name,
                                Type |-> IF HasPrefix(ToUpper(name), "E-")
                                         THEN "Efficiency" ELSE "Performance",
                                OnlinePercent |-> 0,
                                HWActiveFreq |-> 0 ]),
                   !.wrote = TRUE]

\* the cluster entry a line names, made anew at every line
NewClusterInfo(name) ==
    [ Name |-> name,
      Type |-> IF HasPrefix(ToUpper(name), "E-") THEN "Efficiency" ELSE "Performance",
      OnlinePercent |-> 0,
      HWActiveFreq |-> 0 ]

\* an updater that replaces the entry of the cluster instead of updating it
updateClusterInfoReplacing(p, f) ==
    IF f.re.clusterOnline # <<>>
    THEN [p EXCEPT !.clusterInfo =
                       MapPut(@, f.re.clusterOnline[2] \o "-Cluster",
                              [NewClusterInfo(f.re.clusterOnline[2] \o "-Cluster")
                                  EXCEPT !.OnlinePercent = ParseFloat(f.re.clusterOnline[3]).val]),
                   !.wrote = TRUE]
    ELSE IF f.re.clusterHWFreq # <<>>
    THEN [p EXCEPT !.clusterInfo =
                       MapPut(@, f.re.clusterHWFreq[2] \o "-Cluster",
                              [NewClusterInfo(f.re.clusterHWFreq[2] \o "-Cluster")
                                  EXCEPT !.HWActiveFreq = ParseFloat(f.re.clusterHWFreq[3]).val]),
                   !.wrote = TRUE]
    ELSE p

updateClusterInfo(p, f) ==
    IF f.re.clusterOnline # <<>>
    THEN LET name == f.re.clusterOnline[2] \o "-Cluster"
             onlinePercent == ParseFloat(f.re.clusterOnline[3]).val
         IN [ensureCluster(p, name) EXCEPT !.clusterInfo[name].OnlinePercent = onlinePercent,
                                          !.wrote = TRUE]
    ELSE IF f.re.clusterHWFreq # <<>>
    THEN LET name == f.re.clusterHWFreq[2] \o "-Cluster"
             freqMHz == ParseFloat(f.re.clusterHWFreq[3]).val
         IN [ensureCluster(p, name) EXCEPT !.clusterInfo[name].HWActiveFreq = freqMHz,
                                          !.wrote = TRUE]
    ELSE p

ensureCPUResidency(p, cpuID) ==
    IF cpuID \in DOMAIN p.cpuResidencies THEN p
    ELSE [p EXCEPT !.cpuResidencies =
                       MapPut(@, cpuID,
                              [ CPUID |-> cpuID, ActiveResidency |-> EmptyMap,
                                IdleResidency |-> 0, DownResidency |-> 0,
                                Frequency |-> 0 ]),
                   !.wrote = TRUE]

ensureClusterResidency(p, name) ==
    IF name \in DOMAIN p.clusterResidencies THEN p
    ELSE [p EXCEPT !.clusterResidencies =
                       MapPut(@, name,
                              [ Name |-> name, Type |-> "", OnlinePercent |-> 0,
                                HWActiveFreq |-> 0, HWActiveResidency |-> 0,
                                HWActiveFreqResidency |-> EmptyMap,
                                IdleResidency |-> 0, DownResidency |-> 0 ]),
                   !.wrote = TRUE]

updateCPUInfo(p, f) ==
    IF f.re.cpuFrequency # <<>>
    THEN LET cpuID == Atoi(f.re.cpuFrequency[2]).val
         IN [ensureCPUResidency(p, cpuID) EXCEPT
                !.cpuResidencies[cpuID].Frequency = ParseFloat(f.re.cpuFrequency[3]).val,
                !.wrote = TRUE]
    ELSE IF f.re.interrupt # <<>>
    THEN ensureCPUResidency(p, Atoi(f.re.interrupt[2]).val)
    ELSE IF f.re.cpuActive # <<>>
    THEN LET cpuID == Atoi(f.re.cpuActive[2]).val
             cpu == ensureCPUResidency(p, cpuID)
         IN IF f.hasParen
            THEN [cpu EXCEPT !.cpuResidencies[cpuID].ActiveResidency = f.parenResidency,
                             !.wrote = TRUE]
            ELSE cpu
    ELSE IF f.re.cpuIdle # <<>>
    THEN LET cpuID == Atoi(f.re.cpuIdle[2]).val
         IN [ensureCPUResidency(p, cpuID) EXCEPT
                !.cpuResidencies[cpuID].IdleResidency = ParseFloat(f.re.cpuIdle[3]).val,
                !.wrote = TRUE]
    ELSE IF f.re.cpuDown # <<>>
    THEN LET cpuID == Atoi(f.re.cpuDown[2]).val
         IN [ensureCPUResidency(p, cpuID) EXCEPT
                !.cpuResidencies[cpuID].DownResidency = ParseFloat(f.re.cpuDown[3]).val,
                !.wrote = TRUE]
    ELSE IF f.clusterHWActive /\ f.hasColon
    THEN LET clusterName == f.firstField
             p1 == IF f.trailing["%"].ok
                   THEN [ensureClusterResidency(p, clusterName) EXCEPT
                            !.clusterResidencies[clusterName].HWActiveResidency =
                                f.trailing["%"].val,
                            !.wrote = TRUE]
                   ELSE p
         IN IF f.hasParen
            THEN [ensureClusterResidency(p1, clusterName) EXCEPT
                     !.clusterResidencies[clusterName].HWActiveFreqResidency =
                         f.parenResidency,
                     !.wrote = TRUE]
            ELSE p1
    ELSE p

\* updateNetworkInfo storing each direction in a new NetworkMetrics
updateNetworkInfoReplacing(p, f) ==
    LET out == f.re.networkOut
        in == f.re.networkIn
        p1 == IF Len(out) >= 3 /\ ParseFloat(out[2]).ok /\ ParseFloat(out[3]).ok
              THEN [p EXCEPT !.networkInfo.alloc = TRUE,
                             !.networkInfo.OutPacketsPerSec = ParseFloat(out[2]).val,
                             !.networkInfo.OutBytesPerSec = ParseFloat(out[3]).val,
                             !.networkInfo.InPacketsPerSec = 0,
                             !.networkInfo.InBytesPerSec = 0,
                             !.wrote = TRUE]
              ELSE p
    IN IF Len(in) >= 3 /\ ParseFloat(in[2]).ok /\ ParseFloat(in[3]).ok
       THEN [p1 EXCEPT !.networkInfo.alloc = TRUE,
                       !.networkInfo.InPacketsPerSec = ParseFloat(in[2]).val,
                       !.networkInfo.InBytesPerSec = ParseFloat(in[3]).val,
                       !.networkInfo.OutPacketsPerSec = 0,
                       !.networkInfo.OutBytesPerSec = 0,
                       !.wrote = TRUE]
       ELSE p1

updateNetworkInfo(p, f) ==
    LET out == f.re.networkOut
        in == f.re.networkIn
        p1 == IF Len(out) >= 3 /\ ParseFloat(out[2]).ok /\ ParseFloat(out[3]).ok
              THEN [p EXCEPT !.networkInfo.alloc = TRUE,
                             !.networkInfo.OutPacketsPerSec = ParseFloat(out[2]).val,
                             !.networkInfo.OutBytesPerSec = ParseFloat(out[3]).val,
                             !.wrote = TRUE]
              ELSE p
    IN IF Len(in) >= 3 /\ ParseFloat(in[2]).ok /\ ParseFloat(in[3]).ok
       THEN [p1 EXCEPT !.networkInfo.alloc = TRUE,
                       !.networkInfo.InPacketsPerSec = ParseFloat(in[2]).val,
                       !.networkInfo.InBytesPerSec = ParseFloat(in[3]).val,
                       !.wrote = TRUE]
       ELSE p1

\* KBytes to bytes
KBytes == 1024

updateDiskInfo(p, f) ==
    LET read == f.re.diskRead
        write == f.re.diskWrite
        p1 == IF Len(read) >= 3 /\ ParseFloat(read[2]).ok /\ ParseFloat(read[3]).ok
              THEN [p EXCEPT !.diskInfo.alloc = TRUE,
                             !.diskInfo.ReadOpsPerSec = ParseFloat(read[2]).val,
                             !.diskInfo.ReadBytesPerSec = ParseFloat(read[3]).val * KBytes,
                             !.wrote = TRUE]
              ELSE p
    IN IF Len(write) >= 3 /\ ParseFloat(write[2]).ok /\ ParseFloat(write[3]).ok
       THEN [p1 EXCEPT !.diskInfo.alloc = TRUE,
                       !.diskInfo.WriteOpsPerSec = ParseFloat(write[2]).val,
                       !.diskInfo.WriteBytesPerSec = ParseFloat(write[3]).val * KBytes,
                       !.wrote = TRUE]
       ELSE p1

ensureInterruptInfo(p, cpuID) ==
    IF cpuID \in DOMAIN p.interruptInfo THEN p
    ELSE [p EXCEPT !.interruptInfo =
                       MapPut(@, cpuID,
                              [CPUID |-> cpuID, TotalIRQ |-> 0, IPI |-> 0, TIMER |-> 0]),
                   !.wrote = TRUE]

\* an updater that attaches a rate to any entry, set or not
updateInterruptInfoAnyEntry(p, f) ==
    IF f.re.interrupt # <<>>
    THEN {ensureInterruptInfo(p, Atoi(f.re.interrupt[2]).val)}
    ELSE IF f.re.interruptTotal # <<>>
    THEN {p} \cup {[p EXCEPT !.interruptInfo[c].TotalIRQ =
                                ParseFloat(f.re.interruptTotal[2]).val,
                            !.wrote = TRUE] : c \in DOMAIN p.interruptInfo}
    ELSE IF f.re.interruptIPITimer # <<>>
    THEN {p} \cup {[p EXCEPT !.interruptInfo[c][f.re.interruptIPITimer[2]] =
                                ParseFloat(f.re.interruptIPITimer[3]).val,
                            !.wrote = TRUE] : c \in DOMAIN p.interruptInfo}
    ELSE {p}

\* The value goes to the first entry, in the iteration order of the Go map,
\* whose field is still 0: any such entry.  The result is the set of the
\* parsers the call can leave.
updateInterruptInfo(p, f) ==
    IF f.re.interrupt # <<>>
    THEN {ensureInterruptInfo(p, Atoi(f.re.interrupt[2]).val)}
    ELSE IF f.re.interruptTotal # <<>>
    THEN LET unset == {c \in DOMAIN p.interruptInfo : p.interruptInfo[c].TotalIRQ = 0}
         IN IF unset = {} THEN {p}
            ELSE {[p EXCEPT !.interruptInfo[c].TotalIRQ =
                                ParseFloat(f.re.interruptTotal[2]).val,
                            !.wrote = TRUE] : c \in unset}
    ELSE IF f.re.interruptIPITimer # <<>>
    THEN LET interruptType == f.re.interruptIPITimer[2]
             value == ParseFloat(f.re.interruptIPITimer[3]).val
             unset == {c \in DOMAIN p.interruptInfo : p.interruptInfo[c][interruptType] = 0}
         IN IF unset = {} THEN {p}
            ELSE {[p EXCEPT !.interruptInfo[c][interruptType] = value,
                            !.wrote = TRUE] : c \in unset}
    ELSE {p}

updateGPUResidencyInfo(p, f) ==
    IF f.re.gpuFreq # <<>>
    THEN [p EXCEPT !.gpuResidency.PowerMilliwatts = ParseFloat(f.re.gpuFreq[2]).val,
                   !.wrote = TRUE]
    ELSE IF f.re.gpuHwActive # <<>>
    THEN LET p1 == [p EXCEPT !.gpuResidency.HWActiveResidency =
                                 ParseFloat(f.re.gpuHwActive[2]).val,
                             !.wrote = TRUE]
         IN IF f.hasParen
            THEN [p1 EXCEPT !.gpuResidency.HWActiveFreqResidency = f.parenResidency]
            ELSE p1
    ELSE IF f.re.gpuIdle # <<>>
    THEN [p EXCEPT !.gpuResidency.IdleResidency = ParseFloat(f.re.gpuIdle[2]).val,
                   !.wrote = TRUE]
    ELSE IF f.re.gpuSWState # <<>>
    THEN IF f.requested
         THEN [p EXCEPT !.gpuResidency.SWRequestedStates = f.gpuStates, !.wrote = TRUE]
         ELSE [p EXCEPT !.gpuResidency.SWStates = f.gpuStates, !.wrote = TRUE]
    ELSE IF {"gpu", "power"} \subseteq f.tokens
    THEN IF f.trailing["w"].ok
         THEN [p EXCEPT !.gpuResidency.PowerMilliwatts = f.trailing["w"].val * Scale,
                        !.wrote = TRUE]
         ELSE IF f.trailing["mW"].ok
         THEN [p EXCEPT !.gpuResidency.PowerMilliwatts = f.trailing["mW"].val,
                        !.wrote = TRUE]
         ELSE p
    ELSE p

updateBatteryInfo(p, f) ==
    IF f.re.battery # <<>>
    THEN [p EXCEPT !.system.BatteryPercent = ParseFloat(f.re.battery[2]).val,
                   !.wrote = TRUE]
    ELSE p

---------------------------------------------------------------------------
(* Snapshots.                                                              *)
(*                                                                         *)
(* A *Metrics is a record; NoMetrics is the nil pointer.  The pointer      *)
(* fields of a snapshot hold the name of the object they point to (NIL for *)
(* nil): the Go code stores the addresses of the parser's own objects.     *)
(* The slices built by ranging over a map are sets here, their order being *)
(* the map's iteration order.                                              *)

NoMetrics ==
    [ some |-> FALSE, SystemSample |-> NIL, GPUProcessSamples |-> <<>>,
      Clusters |-> <<>>, CPUResidencies |-> {}, ClusterResidencies |-> {},
      GPUResidency |-> NIL, Network |-> NIL, Disk |-> NIL, Interrupts |-> {} ]

\* the characters of a cluster name, in byte order
Ascii ==
    "-0123456789ABCDEFGHIJKLMNOPQRSTUVWXYZ_abcdefghijklmnopqrstuvwxyz"

\* a < b on Go strings
RECURSIVE StrLess(_, _)
StrLess(a, b) ==
    IF b = "" THEN FALSE
    ELSE IF a = "" THEN TRUE
    ELSE IF Ch(a, 1) = Ch(b, 1)
    THEN StrLess(SubSeq(a, 2, Len(a)), SubSeq(b, 2, Len(b)))
    ELSE Index(Ascii, Ch(a, 1)) < Index(Ascii, Ch(b, 1))

RECURSIVE SortByName(_, _)
SortByName(m, names) ==
    IF names = {} THEN <<>>
    ELSE LET least == CHOOSE n \in names : \A o \in names \ {n} : StrLess(n, o)
         IN <<m[least]>> \o SortByName(m, names \ {least})

\* the clusters with the comparison of the sort turned round
clusterSnapshotDescending(p) ==
    [i \in 1..Cardinality(DOMAIN p.clusterInfo) |->
        SortByName(p.clusterInfo, DOMAIN p.clusterInfo)[Cardinality(DOMAIN p.clusterInfo) + 1 - i]]

clusterSnapshot(p) == SortByName(p.clusterInfo, DOMAIN p.clusterInfo)

MapValues(m) == {m[k] : k \in DOMAIN m}

\* the snapshot with the network and the disk only while they carry traffic
buildMetricsOfTraffic(p) ==
    [ some               |-> TRUE,
      Network            |-> IF p.networkInfo.alloc
                                /\ (p.networkInfo.InPacketsPerSec > 0
                                      \/ p.networkInfo.OutPacketsPerSec > 0)
                             THEN "p.networkInfo" ELSE NIL,
      Disk               |-> IF p.diskInfo.alloc
                                /\ (p.diskInfo.ReadOpsPerSec > 0
                                      \/ p.diskInfo.WriteOpsPerSec > 0)
                             THEN "p.diskInfo" ELSE NIL,
      Clusters           |-> clusterSnapshot(p),
      CPUResidencies     |-> MapValues(p.cpuResidencies),
      ClusterResidencies |-> MapValues(p.clusterResidencies),
      GPUResidency       |-> IF \/ p.gpuResidency.HWActiveResidency > 0
                                \/ p.gpuResidency.IdleResidency > 0
                                \/ DOMAIN p.gpuResidency.HWActiveFreqResidency # {}
                                \/ DOMAIN p.gpuResidency.SWStates # {}
                             THEN "p.gpuResidency" ELSE NIL,
      Interrupts         |-> MapValues(p.interruptInfo),
      GPUProcessSamples  |-> <<>>,
      SystemSample       |-> "p.system" ]

buildMetrics(p) ==
    [ some               |-> TRUE,
      Network            |-> IF p.networkInfo.alloc THEN "p.networkInfo" ELSE NIL,
      Disk               |-> IF p.diskInfo.alloc THEN "p.diskInfo" ELSE NIL,
      Clusters           |-> clusterSnapshot(p),
      CPUResidencies     |-> MapValues(p.cpuResidencies),
      ClusterResidencies |-> MapValues(p.clusterResidencies),
      GPUResidency       |-> IF \/ p.gpuResidency.HWActiveResidency > 0
                                \/ p.gpuResidency.IdleResidency > 0
                                \/ DOMAIN p.gpuResidency.HWActiveFreqResidency # {}
                                \/ DOMAIN p.gpuResidency.SWStates # {}
                             THEN "p.gpuResidency" ELSE NIL,
      Interrupts         |-> MapValues(p.interruptInfo),
      GPUProcessSamples  |-> <<>>,
      SystemSample       |-> "p.system" ]

\* the process sample added to the full snapshot of the accumulator
parseGPUProcessLineIntoSnapshot(p, f) ==
    IF ~f.process.matched THEN NoMetrics
    ELSE IF ~f.process.pid.ok THEN NoMetrics
    ELSE IF ~f.process.value.ok THEN NoMetrics
    ELSE [buildMetrics(p) EXCEPT
             !.GPUProcessSamples =
                 << [ PID          |-> f.process.pid.val,
                      Name         |-> f.process.name,
                      BusyPercent  |-> deriveBusyPercent(f.process.activeNs,
                                           f.process.percentStr, f.process.percent,
                                           p.config.SampleWindow),
                      ActiveNanos  |-> f.process.activeNs,
                      FrequencyMHz |-> p.frequencyMHz ] >>]

\* the result of parseGPUProcessLine: a *Metrics (its error is always nil)
\* the process sample without the frequency the parser remembers
parseGPUProcessLineNoFrequency(p, f) ==
    IF ~f.process.matched THEN NoMetrics
    ELSE IF ~f.process.pid.ok THEN NoMetrics
    ELSE IF ~f.process.value.ok THEN NoMetrics
    ELSE [NoMetrics EXCEPT
             !.some = TRUE,
             !.GPUProcessSamples =
                 << [ PID          |-> f.process.pid.val,
                      Name         |-> f.process.name,
                      BusyPercent  |-> deriveBusyPercent(f.process.activeNs,
                                           f.process.percentStr, f.process.percent,
                                           p.config.SampleWindow),
                      ActiveNanos  |-> f.process.activeNs,
                      FrequencyMHz |-> 0 ] >>]

parseGPUProcessLine(p, f) ==
    IF ~f.process.matched THEN NoMetrics
    ELSE IF ~f.process.pid.ok THEN NoMetrics
    ELSE IF ~f.process.value.ok THEN NoMetrics
    ELSE [NoMetrics EXCEPT
             !.some = TRUE,
             !.GPUProcessSamples =
                 << [ PID          |-> f.process.pid.val,
                      Name         |-> f.process.name,
                      BusyPercent  |-> deriveBusyPercent(f.process.activeNs,
                                           f.process.percentStr, f.process.percent,
                                           p.config.SampleWindow),
                      ActiveNanos  |-> f.process.activeNs,
                      FrequencyMHz |-> p.frequencyMHz ] >>]

\* pid, err := strconv.Atoi(matches[1]) puts this in err for a pid that
\* does not fit an int
AtoiRangeError == "strconv.Atoi: value out of range"

\* parseGPUProcessLine hands the strconv error on to its caller
parseGPUProcessLineStrict(f) ==
    IF ~f.process.matched THEN NIL
    ELSE IF ~f.process.pid.ok THEN AtoiRangeError
    ELSE IF ~f.process.value.ok THEN "strconv.ParseFloat: invalid syntax"
    ELSE NIL

\* the error parseGPUProcessLine returns beside that *Metrics: each of its
\* four returns gives nil, the strconv errors are dropped
parseGPUProcessLineError(f) ==
    IF ~f.process.matched THEN NIL
    ELSE IF ~f.process.pid.ok THEN NIL
    ELSE IF ~f.process.value.ok THEN NIL
    ELSE NIL

\* p.system.<field> = val; updated = true      (st is [p, updated])
SetSystem(st, field, val) ==
    [st EXCEPT !.p.system[field] = val, !.p.wrote = TRUE, !.updated = TRUE]

\* "if watts not found, try milliwatts": the value stored by a power block
PowerBlock(st, f, field) ==
    IF f.trailing["w"].ok THEN SetSystem(st, field, f.trailing["w"].val)
    ELSE IF f.trailing["mW"].ok THEN SetSystem(st, field, f.trailing["mW"].val \div Scale)
    ELSE st

\* a block "if val, ok := parseTrailingValue(line, suffix); ok { field = val }"
ValueBlock(st, f, suffix, field) ==
    IF f.trailing[suffix].ok THEN SetSystem(st, field, f.trailing[suffix].val) ELSE st

\* the blocks that pick the temperature field from the words of the line
LabelledTemperature(st, f, both) ==
    IF ~f.trailing["c"].ok THEN st
    ELSE IF f.tokens \cap ({"cpu", "package"} \cup (IF both THEN {"processor"} ELSE {})) # {}
    THEN SetSystem(st, "CPUTemperatureC", f.trailing["c"].val)
    ELSE IF f.tokens \cap ({"gpu"} \cup (IF both THEN {"graphics"} ELSE {})) # {}
    THEN SetSystem(st, "GPUTemperatureC", f.trailing["c"].val)
    ELSE IF both
    THEN SetSystem(SetSystem(st, "CPUTemperatureC", f.trailing["c"].val),
                   "GPUTemperatureC", f.trailing["c"].val)
    ELSE [st EXCEPT !.updated = TRUE]

\* The k-th block of parseSystemMetrics, in the order of the source, applied
\* to st = [p, updated].
SystemBlock(k, st, f) ==
    LET t == f.tokens
    IN CASE k = 1 ->
              IF {"cpu", "power"} \subseteq t /\ "gpu" \notin t
              THEN PowerBlock(st, f, "CPUPowerWatts") ELSE st
         [] k = 2 ->
              IF {"cpu", "frequency"} \subseteq t /\ "gpu" \notin t
              THEN ValueBlock(st, f, "mhz", "CPUFrequencyMHz") ELSE st
         [] k = 3 ->
              IF {"gpu", "busy"} \subseteq t
              THEN ValueBlock(st, f, "%", "GPUBusyPercent") ELSE st
         [] k = 4 ->
              IF {"gpu", "hw active residency"} \subseteq t /\ f.leadingPercent.ok
              THEN SetSystem(st, "GPUBusyPercent", f.leadingPercent.val) ELSE st
         [] k = 5 ->
              IF {"gpu", "idle residency"} \subseteq t /\ f.leadingPercent.ok
              THEN IF st.p.system.GPUBusyPercent = 0
                   THEN SetSystem(st, "GPUBusyPercent",
                                  clampPercent(100 * Scale - f.leadingPercent.val))
                   ELSE [st EXCEPT !.updated = TRUE]
              ELSE st
         [] k = 6 ->
              IF {"ane", "busy"} \subseteq t
              THEN ValueBlock(st, f, "%", "ANEBusyPercent") ELSE st
         [] k = 7 ->
              IF {"ane", "power"} \subseteq t THEN PowerBlock(st, f, "ANEPowerWatts") ELSE st
         [] k = 8 ->
              IF {"gpu", "power"} \subseteq t THEN PowerBlock(st, f, "GPUPowerWatts") ELSE st
         [] k = 9 ->
              IF {"dram", "power"} \subseteq t
              THEN ValueBlock(st, f, "w", "DRAMPowerWatts") ELSE st
         [] k = 10 ->
              IF {"gpu", "frequency"} \subseteq t /\ f.trailing["mhz"].ok
              THEN [SetSystem(st, "GPUFrequencyMHz", f.trailing["mhz"].val)
                       EXCEPT !.p.frequencyMHz = f.trailing["mhz"].val]
              ELSE st
         [] k = 11 ->
              IF {"gpu", "temperature"} \subseteq t
              THEN ValueBlock(st, f, "c", "GPUTemperatureC") ELSE st
         [] k = 12 ->
              IF {"cpu", "temperature"} \subseteq t
              THEN ValueBlock(st, f, "c", "CPUTemperatureC") ELSE st
         [] k = 13 ->
              IF {"gpu", "die", "temp"} \subseteq t \/ {"gpu", "junction", "temp"} \subseteq t
              THEN ValueBlock(st, f, "c", "GPUTemperatureC") ELSE st
         [] k = 14 ->
              IF \/ {"cpu", "die", "temp"} \subseteq t
                 \/ {"cpu", "junction", "temp"} \subseteq t
                 \/ {"package", "temp"} \subseteq t
              THEN ValueBlock(st, f, "c", "CPUTemperatureC") ELSE st
         [] k = 15 ->
              IF /\ "temperature" \in t
                 /\ t \cap {"die", "junction", "package", "sensor"} # {}
                 /\ f.trailing["c"].ok
              THEN IF st.p.system.CPUTemperatureC = 0
                   THEN SetSystem(st, "CPUTemperatureC", f.trailing["c"].val)
                   ELSE IF st.p.system.GPUTemperatureC = 0
                   THEN SetSystem(st, "GPUTemperatureC", f.trailing["c"].val)
                   ELSE [st EXCEPT !.updated = TRUE]
              ELSE st
         [] k = 16 ->
              IF {"junction", "temperature"} \subseteq t /\ t \cap {"cpu", "gpu"} # {}
              THEN LabelledTemperature(st, f, FALSE) ELSE st
         [] k = 17 ->
              IF {"die", "temperature"} \subseteq t
              THEN LabelledTemperature(st, f, FALSE) ELSE st
         [] k = 18 ->
              IF {"temperature", "c"} \subseteq t
              THEN LabelledTemperature(st, f, TRUE) ELSE st

\* the number of blocks of parseSystemMetrics
SystemBlocks == 18

\* st after the blocks k+1, ..., SystemBlocks
RECURSIVE RunSystemBlocks(_, _, _)
RunSystemBlocks(k, st, f) ==
    IF k >= SystemBlocks THEN st
    ELSE RunSystemBlocks(k + 1, SystemBlock(k + 1, st, f), f)

\* The accumulator after parseSystemMetrics and whether the line updated it.
SystemMetricsState(p, f) == RunSystemBlocks(0, [p |-> p, updated |-> FALSE], f)

\* the *Metrics parseSystemMetrics returns, built from the accumulator q it left
parseSystemMetrics(q, updated) ==
    IF ~updated THEN NoMetrics
    ELSE [buildMetrics(q) EXCEPT
             !.GPUResidency = IF \/ q.gpuResidency.HWActiveResidency > 0
                                 \/ q.gpuResidency.IdleResidency > 0
                                 \/ DOMAIN q.gpuResidency.HWActiveFreqResidency # {}
                              THEN "p.gpuResidency" ELSE NIL]

\* systemChanged || networkChanged || diskChanged || clusterChanged ||
\* cpuResidencyChanged || clusterResidencyChanged || gpuResidencyChanged,
\* for the parser prev before the updaters and q after them
AnyChanged(prev, q) ==
    \/ q.system # prev.system
    \/ q.networkInfo.alloc /\ (\/ ~prev.networkInfo.alloc
                               \/ q.networkInfo.InPacketsPerSec > 0
                               \/ q.networkInfo.OutPacketsPerSec > 0)
    \/ q.diskInfo.alloc /\ (\/ ~prev.diskInfo.alloc
                            \/ q.diskInfo.ReadOpsPerSec > 0
                            \/ q.diskInfo.WriteOpsPerSec > 0)
    \/ DOMAIN q.clusterInfo # {}
    \/ DOMAIN q.cpuResidencies # {}
    \/ DOMAIN q.clusterResidencies # {}
    \/ q.gpuResidency.HWActiveResidency > 0
    \/ q.gpuResidency.IdleResidency > 0
    \/ DOMAIN q.gpuResidency.HWActiveFreqResidency # {}
    \/ DOMAIN q.gpuResidency.SWStates # {}

\* the end of ParseLine: sys is what parseSystemMetrics left
ReturnMetrics(sys, changed) ==
    [p |-> sys.p,
     metrics |-> IF changed THEN buildMetrics(sys.p)
                 ELSE parseSystemMetrics(sys.p, sys.updated),
     err |-> NIL]

\* ParseLine from parseGPUProcessLine on: q is the parser after the updaters
AfterUpdaters(prev, q, f) ==
    IF parseGPUProcessLineError(f) # NIL
    THEN [p |-> q, metrics |-> NoMetrics, err |-> parseGPUProcessLineError(f)]
    ELSE IF parseGPUProcessLine(q, f).some
    THEN [p |-> q, metrics |-> parseGPUProcessLine(q, f), err |-> NIL]
    ELSE ReturnMetrics(SystemMetricsState(q, f), AnyChanged(prev, q))

\* ParseLine without the section banners: a banner is parsed as any line
ParseAnalysedBannersAsData(p, f) ==
    IF f.line = "" \/ HasPrefix(f.line, "--")
    THEN {[p |-> p, metrics |-> NoMetrics, err |-> NIL]}
    ELSE {AfterUpdaters(p, updateBatteryInfo(updateGPUResidencyInfo(a5, f), f), f) :
            a5 \in updateInterruptInfo(
                      updateDiskInfo(
                        updateNetworkInfo(
                          updateCPUInfo(updateClusterInfo(p, f), f), f), f), f)}

\* ParseLine on a line whose analysis is f
ParseAnalysed(p, f) ==
    IF f.line = "" \/ HasPrefix(f.line, "--") \/ f.banner
    THEN {[p |-> p, metrics |-> NoMetrics, err |-> NIL]}
    ELSE {AfterUpdaters(p, updateBatteryInfo(updateGPUResidencyInfo(a5, f), f), f) :
            a5 \in updateInterruptInfo(
                      updateDiskInfo(
                        updateNetworkInfo(
                          updateCPUInfo(updateClusterInfo(p, f), f), f), f), f)}

\* ParseLine(line) on parser p: the set of [p, metrics, err] it can leave
\* and return (several when a Go map iteration picks the entry to update).
ParseLine(p, raw) == ParseAnalysed([p EXCEPT !.wrote = FALSE], Analysis[raw])

\* The value of snapshot m read through its pointers while the parser is p.
Deref(m, p) ==
    [m EXCEPT !.SystemSample = IF @ = NIL THEN NIL ELSE p.system,
              !.Network      = IF @ = NIL THEN NIL ELSE p.networkInfo,
              !.Disk         = IF @ = NIL THEN NIL ELSE p.diskInfo,
              !.GPUResidency = IF @ = NIL THEN NIL ELSE p.gpuResidency]

---------------------------------------------------------------------------
(* State.                                                                  *)

VARIABLES
    parser,     \* the Parser
    lastCall,   \* the latest ParseLine call: its number, line, result, whether it wrote
    emitted,    \* the snapshots ParseLine has returned, in order
    views,      \* views[i]: the value a direct caller read from emitted[i] on return
    pc,         \* where the producer goroutine of streamFromReader is
    source,     \* the line source: kind, remaining lines, what follows them, wait's error
    ctx,        \* the context: "background", "live" or "cancelled"
    scanned,    \* scanner.Text() of the producer
    pending,    \* the snapshot the producer is about to send, and where it goes on then
    metricsCh,  \* the Metrics channel: buffer, close calls, sent on when closed?
    errCh,      \* the Errors channel: buffer, close calls, sent on when closed?
    consumer,   \* the consumer: still receiving?, snapshots and errors received
    aux         \* observations: pc at cancellation, a write racing with the consumer,
                \* the calls of wait() that have returned

vars == <<parser, lastCall, emitted, views, pc, source, ctx, scanned, pending,
          metricsCh, errCh, consumer, aux>>

streamVars == <<pc, source, ctx, scanned, pending, metricsCh, errCh, consumer, aux>>

\* ParseLine calls made directly by a caller in one behaviour
MaxCalls == 3

NoCall == [calls |-> 0, line |-> "", metrics |-> NoMetrics, err |-> NIL, wrote |-> FALSE]

\* make(chan T, n)
MakeChan == [buf |-> <<>>, closed |-> 0, sentClosed |-> FALSE]

NoSource ==
    [kind |-> "none", lines |-> <<>>, end |-> "eof", waitErr |-> FALSE, killed |-> FALSE,
     tooLong |-> FALSE]

NoConsumer == [active |-> FALSE, received |-> <<>>, errors |-> <<>>]

NoAux == [cancelledAt |-> "never", race |-> FALSE, waits |-> 0, drainer |-> "none"]

NoPending == [m |-> NoMetrics, then |-> "scan"]

\* a parser just constructed, no stream started
Init ==
    /\ parser = NewParser(0)
    /\ lastCall = NoCall
    /\ emitted = <<>>
    /\ views = <<>>
    /\ pc = "idle"
    /\ source = NoSource
    /\ ctx = "background"
    /\ scanned = ""
    /\ pending = NoPending
    /\ metricsCh = MakeChan
    /\ errCh = MakeChan
    /\ consumer = NoConsumer
    /\ aux = NoAux

\* What a ParseLine call with outcome r on line raw leaves in parser,
\* lastCall and emitted.
Called(raw, r) ==
    /\ parser' = Accumulator(r.p)
    /\ lastCall' = [calls |-> lastCall.calls + 1, line |-> raw, metrics |-> r.metrics,
                    err |-> r.err, wrote |-> r.p.wrote]
    /\ emitted' = IF r.metrics.some THEN Append(emitted, r.metrics) ELSE emitted

\* a caller calls p.ParseLine(raw) and reads the snapshot it gets
CallParseLine ==
    /\ pc = "idle"
    /\ lastCall.calls < MaxCalls
    /\ \E raw \in ParserLines : \E r \in ParseLine(parser, raw) :
          /\ Called(raw, r)
          /\ views' = IF r.metrics.some
                      THEN Append(views, Deref(r.metrics, Accumulator(r.p)))
                      ELSE views
    /\ UNCHANGED streamVars

Next == CallParseLine

Spec == Init /\ [][Next]_vars

\* a caller feeds the parser the lines of the accumulator's entities
CallAccumulatorLine ==
    /\ pc = "idle"
    /\ lastCall.calls < MaxCalls
    /\ \E raw \in AccumulatorLines : \E r \in ParseLine(parser, raw) :
          /\ Called(raw, r)
          /\ views' = IF r.metrics.some
                      THEN Append(views, Deref(r.metrics, Accumulator(r.p)))
                      ELSE views
    /\ UNCHANGED streamVars

NextAccumulator == CallAccumulatorLine

SpecAccumulator == Init /\ [][NextAccumulator]_vars

\* a caller feeds the parser the scalar lines
CallScalarLine ==
    /\ pc = "idle"
    /\ lastCall.calls < MaxCalls
    /\ \E raw \in ScalarLines : \E r \in ParseLine(parser, raw) :
          /\ Called(raw, r)
          /\ views' = IF r.metrics.some
                      THEN Append(views, Deref(r.metrics, Accumulator(r.p)))
                      ELSE views
    /\ UNCHANGED streamVars

NextScalar == CallScalarLine

SpecScalar == Init /\ [][NextScalar]_vars

\* a caller feeds the parser the lines of a sample
CallSampleLine ==
    /\ pc = "idle"
    /\ lastCall.calls < MaxCalls
    /\ \E raw \in SampleLines : \E r \in ParseLine(parser, raw) :
          /\ Called(raw, r)
          /\ views' = IF r.metrics.some
                      THEN Append(views, Deref(r.metrics, Accumulator(r.p)))
                      ELSE views
    /\ UNCHANGED streamVars

NextSample == CallSampleLine

SpecSample == Init /\ [][NextSample]_vars

\* the arguments of a call of deriveBusyPercent: active time and window in
\* nanoseconds, the text of the percent group
ActiveTimes == {0, 100000, 250000000, 500000000, 1500000000}

Windows == {0 - 1000000000, 0, 500000000, 1000000000}

PercentStrings == {"", "0", "85.5", "150", "-5", "abc", "NaN", "nan"}

\* a caller about to call deriveBusyPercent(activeNs, explicitPercent, window)
InitDerive ==
    /\ parser = NewParser(0)
    /\ lastCall \in [calls : {0}, activeNs : ActiveTimes, explicitPercent : PercentStrings,
                      window : Windows, busy : {0}]
    /\ emitted = <<>>
    /\ views = <<>>
    /\ pc = "idle"
    /\ source = NoSource
    /\ ctx = "background"
    /\ scanned = ""
    /\ pending = NoPending
    /\ metricsCh = MakeChan
    /\ errCh = MakeChan
    /\ consumer = NoConsumer
    /\ aux = NoAux

\* busy := deriveBusyPercent(activeNs, explicitPercent, window)
CallDeriveBusyPercent ==
    /\ lastCall.calls = 0
    /\ lastCall' = [lastCall EXCEPT
                       !.calls = 1,
                       !.busy = deriveBusyPercent(lastCall.activeNs,
                                    lastCall.explicitPercent,
                                    ParseFloat64(lastCall.explicitPercent),
                                    lastCall.window)]
    /\ UNCHANGED <<parser, emitted, views, streamVars>>

NextDerive == CallDeriveBusyPercent

SpecDerive == InitDerive /\ [][NextDerive]_vars

\* the configurations a caller passes: paths, argument lists (with no, one,
\* two or a dangling "-i") and sample windows in nanoseconds
ConfigPaths == {"", "/custom/path"}

ConfigArgs ==
    { <<>>,
      <<"--samplers", "cpu_power">>,
      <<"--samplers", "cpu_power", "-i", "500">>,
      <<"-i", "100">>,
      <<"-i">>,
      <<"--samplers", "default", "-i">>,
      <<"-i", "-i">>,
      <<"-i", "5", "-i", "7">> }

ConfigWindows == {0 - 1000000000, 0, 500000, 500000000, 1000000000, 2000000000}

\* a caller about to call normalizeConfig(cfg); lastCall.caller holds the
\* elements of its argument slice
InitConfig ==
    /\ parser = NewParser(0)
    /\ lastCall \in {[calls |-> 0, cfg |-> c, caller |-> c.PowermetricsArgs,
                       normalized |-> <<>>] :
                         c \in [PowermetricsPath : ConfigPaths,
                                PowermetricsArgs : ConfigArgs,
                                SampleWindow : ConfigWindows]}
    /\ emitted = <<>>
    /\ views = <<>>
    /\ pc = "idle"
    /\ source = NoSource
    /\ ctx = "background"
    /\ scanned = ""
    /\ pending = NoPending
    /\ metricsCh = MakeChan
    /\ errCh = MakeChan
    /\ consumer = NoConsumer
    /\ aux = NoAux

\* normalizeConfig(cfg), and then normalizeConfig of what it returned
CallNormalizeConfig ==
    /\ lastCall.calls < 2
    /\ lastCall' =
          IF lastCall.calls = 0
          THEN [lastCall EXCEPT
                   !.calls = 1,
                   !.caller = normalizeConfig(lastCall.cfg).caller,
                   !.normalized = <<normalizeConfig(lastCall.cfg).cfg>>]
          ELSE [lastCall EXCEPT
                   !.calls = 2,
                   !.normalized =
                       Append(@, normalizeConfig(lastCall.normalized[1]).cfg)]
    /\ UNCHANGED <<parser, emitted, views, streamVars>>

NextConfig == CallNormalizeConfig

SpecConfig == InitConfig /\ [][NextConfig]_vars

\* the lines parseTrailingValue is called with
TrailingLines ==
    { "CPU Power: 15.5 W",
      "CPU Power: 15.5 W (100%)",
      "GPU Busy: 45.2%",
      "CPU Frequency: 2.4 GHz",
      "CPU Power: N/A W",
      "Total: 10.0 W out of 100.0 W",
      "CPU Power: 954 mW",
      "GPU HW active frequency: 444 MHz",
      "GPU die temperature: 45.2 C",
      "E-Cluster HW active residency: 50% (600 MHz: 10%)",
      "W 5" }

\* a caller about to call parseTrailingValue(line, suffix)
InitTrailing ==
    /\ parser = NewParser(0)
    /\ lastCall \in [calls : {0}, line : TrailingLines, suffix : Suffixes,
                      found : {NotFound}]
    /\ emitted = <<>>
    /\ views = <<>>
    /\ pc = "idle"
    /\ source = NoSource
    /\ ctx = "background"
    /\ scanned = ""
    /\ pending = NoPending
    /\ metricsCh = MakeChan
    /\ errCh = MakeChan
    /\ consumer = NoConsumer
    /\ aux = NoAux

\* val, ok := parseTrailingValue(line, suffix)
CallParseTrailingValue ==
    /\ lastCall.calls = 0
    /\ lastCall' = [lastCall EXCEPT
                       !.calls = 1,
                       !.found = parseTrailingValue(lastCall.line, lastCall.suffix)]
    /\ UNCHANGED <<parser, emitted, views, streamVars>>

NextTrailing == CallParseTrailingValue

SpecTrailing == InitTrailing /\ [][NextTrailing]_vars

\* a caller feeds the parser temperature lines
CallTemperatureLine ==
    /\ pc = "idle"
    /\ source.kind = "none"
    /\ lastCall.calls < MaxCalls
    /\ \E raw \in TemperatureLines : \E r \in ParseLine(parser, raw) :
          /\ Called(raw, r)
          /\ views' = IF r.metrics.some
                      THEN Append(views, Deref(r.metrics, Accumulator(r.p)))
                      ELSE views
    /\ UNCHANGED streamVars

NextTemperature == CallTemperatureLine

SpecTemperature == Init /\ [][NextTemperature]_vars

\* a caller feeds the parser interrupt lines in any order, as repeated polling
\* cycles do
CallInterruptLine ==
    /\ pc = "idle"
    /\ source.kind = "none"
    /\ lastCall.calls < MaxCalls
    /\ \E raw \in InterruptLines : \E r \in ParseLine(parser, raw) :
          /\ Called(raw, r)
          /\ views' = IF r.metrics.some
                      THEN Append(views, Deref(r.metrics, Accumulator(r.p)))
                      ELSE views
    /\ UNCHANGED streamVars

NextInterrupt == CallInterruptLine

SpecInterrupt == Init /\ [][NextInterrupt]_vars

\* a fresh parser and a caller about to feed it the lines of one pass, which
\* source.lines holds
InitPass ==
    /\ parser = NewParser(0)
    /\ lastCall = NoCall
    /\ emitted = <<>>
    /\ views = <<>>
    /\ pc = "idle"
    /\ source \in {[NoSource EXCEPT !.kind = "feed", !.lines = pass] : pass \in Passes}
    /\ ctx = "background"
    /\ scanned = ""
    /\ pending = NoPending
    /\ metricsCh = MakeChan
    /\ errCh = MakeChan
    /\ consumer = NoConsumer
    /\ aux = NoAux

\* the caller calls p.ParseLine on the next line of the pass
CallPassLine ==
    /\ pc = "idle"
    /\ source.kind = "feed"
    /\ lastCall.calls < Len(source.lines)
    /\ \E r \in ParseLine(parser, source.lines[lastCall.calls + 1]) :
          /\ Called(source.lines[lastCall.calls + 1], r)
          /\ views' = IF r.metrics.some
                      THEN Append(views, Deref(r.metrics, Accumulator(r.p)))
                      ELSE views
    /\ UNCHANGED streamVars

NextPass == CallPassLine

SpecPass == InitPass /\ [][NextPass]_vars

---------------------------------------------------------------------------
(* The streaming driver: streamFromReader (parser.go).                     *)
(*                                                                         *)
(* The producer goroutine is at pc:                                        *)
(*   scan         for scanner.Scan()                                       *)
(*   select       select { case <-ctx.Done(): ... default: }               *)
(*   sendCancel   errCh <- ctx.Err()                                       *)
(*   waitCancel   _ = wait()                                               *)
(*   parse        p.ParseLine(line)                                        *)
(*   send         metricsCh <- *metrics                                    *)
(*   flush        p.flushProcessSamples()                                  *)
(*   scanErr      if err := scanner.Err(); err != nil { errCh <- err }     *)
(*   wait         if wait != nil { ... wait() ... }                        *)
(*   closeErr     the deferred close(errCh)                                *)
(*   closeMetrics the deferred close(metricsCh)                            *)
(*   done         the goroutine has returned                               *)
(* The source is a subprocess pipe (RunWithErrors: wait is cmd.Wait) or a  *)
(* reader (RunWithReader: wait is nil).  After its lines it ends ("eof"),  *)
(* fails ("err": scanner.Err() is not nil) or stays silent ("block": Read  *)
(* does not return).  Cancelling the context kills the subprocess: what it *)
(* had not written yet is lost and the pipe ends.                          *)

\* make(chan Metrics, 128)
metricsChCap == 128

\* make(chan error, 16)
errChCap == 16

\* an unbuffered channel: a send waits for the receiver to take the value
CanSendUnbuffered(ch, cap) == Len(ch.buf) < 1

\* ch <- v can proceed
CanSend(ch, cap) == Len(ch.buf) < cap

\* ch <- v
Send(ch, v) == [ch EXCEPT !.buf = Append(@, v), !.sentClosed = @ \/ ch.closed > 0]

\* close(ch)
close(ch) == [ch EXCEPT !.closed = @ + 1]

\* flushProcessSamples: one final snapshot of the buffered process samples,
\* nil when none is buffered
flushProcessSamples(q) ==
    IF q.processSamples = <<>> THEN NoMetrics
    ELSE [NoMetrics EXCEPT !.some = TRUE]

ProcessLine == "pid 1234 Safari 5.2ms (85.5%)"

\* bufio.MaxScanTokenSize (64 * 1024), the buffer bufio.NewScanner gives the
\* scanner
MaxScanTokenSize == 65536

\* a line of 70000 bytes, standing for its text
LongLine == "<a line of 70000 bytes>"

\* the bytes of a line of the source
LineBytes(raw) == IF raw = LongLine THEN 70000 ELSE Len(raw)

\* the line sequences a source of the model delivers
StreamSources ==
    { <<>>,
      <<"CPU Power: 15.5 W", "System uptime: 10 days", "CPU Power: 20 W">>,
      <<ProcessLine, "CPU Power: 15.5 W">> }

\* a burst of process lines longer than the Metrics buffer
BurstLen == 130

Burst == [i \in 1..BurstLen |-> ProcessLine]

Prefixes(seq) == {SubSeq(seq, 1, n) : n \in 0..Len(seq)}

\* the sources: a reader has no wait function, so no wait error
Sources(lineSeqs) ==
    {src \in [kind : {"pipe", "reader"}, lines : lineSeqs, end : {"eof", "err", "block"},
              waitErr : BOOLEAN, killed : {FALSE}, tooLong : {FALSE}] :
        src.kind = "reader" => ~src.waitErr}

\* streamFromReader has made the channels and started the producer
StreamStarted ==
    /\ parser = NewParser(0)
    /\ lastCall = NoCall
    /\ emitted = <<>>
    /\ views = <<>>
    /\ pc = "scan"
    /\ scanned = ""
    /\ pending = NoPending
    /\ metricsCh = MakeChan
    /\ errCh = MakeChan
    /\ consumer = [NoConsumer EXCEPT !.active = TRUE]
    /\ aux = NoAux

\* RunWithErrors or RunWithReader has returned the Stream
InitStream ==
    /\ StreamStarted
    /\ source \in Sources(StreamSources)
    /\ ctx \in {"background", "live"}

\* sources whose lines hold content the parser cannot use
ContentSources ==
    { <<>>,
      <<"System uptime: 10 days">>,
      <<"pid abc Safari 5.2ms", ProcessLine>>,
      <<"pid 99999999999999999999 Safari 5.2ms", "E-Cluster Online: 1.2.3%",
        "CPU Power: 15.5 W">>,
      <<LongLine, "CPU Power: 15.5 W">> }

\* ... or a Stream over one of these
InitContent ==
    /\ StreamStarted
    /\ source \in Sources(ContentSources)
    /\ ctx \in {"background", "live"}

\* ... or a Stream over the burst, which nothing cancels
InitBurst ==
    \/ InitStream
    \/ /\ StreamStarted
       /\ source \in {src \in Sources({Burst}) :
                        src.kind = "reader" /\ src.end = "eof"}
       /\ ctx = "background"

\* the snapshot pointers of m that are not nil
Pointers(m) == {m.SystemSample, m.Network, m.Disk, m.GPUResidency} \ {NIL}

\* the parser objects whose value differs between q and r
Written(q, r) ==
    {o \in {"p.system", "p.networkInfo", "p.diskInfo", "p.gpuResidency"} :
        \/ o = "p.system" /\ q.system # r.system
        \/ o = "p.networkInfo" /\ q.networkInfo # r.networkInfo
        \/ o = "p.diskInfo" /\ q.diskInfo # r.diskInfo
        \/ o = "p.gpuResidency" /\ q.gpuResidency # r.gpuResidency}

\* the producer writes, with r, an object a snapshot the consumer holds points to
Races(r) ==
    \E i \in DOMAIN consumer.received :
        Pointers(consumer.received[i]) \cap Written(parser, r.p) # {}

\* for scanner.Scan() { ... }: the next line, or the end of the loop
\* A line that does not fit the scanner's buffer stops the scanner for good
\* with bufio.ErrTooLong.
Scan ==
    /\ pc = "scan"
    /\ IF source.lines # <<>> /\ LineBytes(Head(source.lines)) >= MaxScanTokenSize
       THEN /\ source' = [source EXCEPT !.tooLong = TRUE]
            /\ pc' = "flush"
            /\ UNCHANGED scanned
       ELSE IF source.lines # <<>>
       THEN /\ scanned' = Head(source.lines)
            /\ source' = [source EXCEPT !.lines = Tail(@)]
            /\ pc' = "select"
       ELSE /\ source.end # "block"
            /\ pc' = "flush"
            /\ UNCHANGED <<scanned, source>>
    /\ UNCHANGED <<parser, lastCall, emitted, views, ctx, pending, metricsCh, errCh,
                   consumer, aux>>

Select ==
    /\ pc = "select"
    /\ pc' = IF ctx = "cancelled" THEN "sendCancel" ELSE "parse"
    /\ UNCHANGED <<parser, lastCall, emitted, views, source, ctx, scanned, pending,
                   metricsCh, errCh, consumer, aux>>

\* ... with the Errors channel closed in the branch as well as by the defer
SendCancelThenClose ==
    /\ pc = "sendCancel"
    /\ Len(errCh.buf) < errChCap
    /\ errCh' = [errCh EXCEPT !.buf = Append(@, "context canceled"), !.closed = @ + 1]
    /\ pc' = IF source.kind = "pipe" THEN "waitCancel" ELSE "closeErr"
    /\ UNCHANGED <<parser, lastCall, emitted, views, source, ctx, scanned, pending,
                   metricsCh, consumer, aux>>

\* the cancellation branch without its return: the loop goes on with the line
SendCancelThenParse ==
    /\ pc = "sendCancel"
    /\ CanSend(errCh, errChCap)
    /\ errCh' = Send(errCh, "context canceled")
    /\ pc' = "parse"
    /\ UNCHANGED <<parser, lastCall, emitted, views, source, ctx, scanned, pending,
                   metricsCh, consumer, aux>>

SendCancel ==
    /\ pc = "sendCancel"
    /\ CanSend(errCh, errChCap)
    /\ errCh' = Send(errCh, "context canceled")
    /\ pc' = IF source.kind = "pipe" THEN "waitCancel" ELSE "closeErr"
    /\ UNCHANGED <<parser, lastCall, emitted, views, source, ctx, scanned, pending,
                   metricsCh, consumer, aux>>

\* cmd.Wait() returns once the subprocess has exited
WaitReturns == source.end = "eof" \/ source.killed

\* the cancellation branch without its return: the goroutine goes on to the
\* wait at its end
WaitCancelThenGoOn ==
    /\ pc = "waitCancel"
    /\ WaitReturns
    /\ pc' = "wait"
    /\ aux' = [aux EXCEPT !.waits = @ + 1]
    /\ UNCHANGED <<parser, lastCall, emitted, views, source, ctx, scanned, pending,
                   metricsCh, errCh, consumer>>

\* if wait != nil { _ = wait() }; return
WaitCancel ==
    /\ pc = "waitCancel"
    /\ WaitReturns
    /\ pc' = "closeErr"
    /\ aux' = [aux EXCEPT !.waits = @ + 1]
    /\ UNCHANGED <<parser, lastCall, emitted, views, source, ctx, scanned, pending,
                   metricsCh, errCh, consumer>>

\* metrics, err := p.ParseLine(line); an error goes to errCh and the loop
\* continues (the step waits for room in errCh), a snapshot goes on to the send
Parse ==
    /\ pc = "parse"
    /\ \E r \in ParseLine(parser, scanned) :
          /\ Called(scanned, r)
          /\ aux' = [aux EXCEPT !.race = @ \/ Races(r)]
          /\ IF r.err # NIL
             THEN /\ CanSend(errCh, errChCap)
                  /\ errCh' = Send(errCh, "parse line: " \o r.err)
                  /\ pending' = pending /\ pc' = "scan"
             ELSE /\ errCh' = errCh
                  /\ IF r.metrics.some
                     THEN pending' = [m |-> r.metrics, then |-> "scan"] /\ pc' = "send"
                     ELSE pending' = pending /\ pc' = "scan"
    /\ UNCHANGED <<views, source, ctx, scanned, metricsCh, consumer>>

\* select { case metricsCh <- *metrics: default: }: the snapshot is dropped
\* when the buffer is full
SendMetricsOrDrop ==
    /\ pc = "send"
    /\ metricsCh' = IF Len(metricsCh.buf) < metricsChCap
                    THEN [metricsCh EXCEPT !.buf = Append(@, pending.m)]
                    ELSE metricsCh
    /\ pc' = pending.then
    /\ pending' = NoPending
    /\ UNCHANGED <<parser, lastCall, emitted, views, source, ctx, scanned, errCh,
                   consumer, aux>>

\* metricsCh <- *metrics
SendMetrics ==
    /\ pc = "send"
    /\ CanSend(metricsCh, metricsChCap)
    /\ metricsCh' = Send(metricsCh, pending.m)
    /\ pc' = pending.then
    /\ pending' = NoPending
    /\ UNCHANGED <<parser, lastCall, emitted, views, source, ctx, scanned, errCh,
                   consumer, aux>>

Flush ==
    /\ pc = "flush"
    /\ IF flushProcessSamples(parser).some
       THEN /\ pending' = [m |-> flushProcessSamples(parser), then |-> "scanErr"]
            /\ parser' = [parser EXCEPT !.processSamples = <<>>]
            /\ pc' = "send"
       ELSE /\ pc' = "scanErr"
            /\ UNCHANGED <<pending, parser>>
    /\ UNCHANGED <<lastCall, emitted, views, source, ctx, scanned, metricsCh, errCh,
                   consumer, aux>>

\* a goroutine that does not look at scanner.Err()
ScanErrIgnored ==
    /\ pc = "scanErr"
    /\ pc' = "wait"
    /\ UNCHANGED <<parser, lastCall, emitted, views, source, ctx, scanned, pending,
                   metricsCh, errCh, consumer, aux>>

\* if err := scanner.Err(); err != nil { errCh <- err }
ScanErr ==
    /\ pc = "scanErr"
    /\ IF source.tooLong
       THEN CanSend(errCh, errChCap) /\ errCh' = Send(errCh, "bufio.Scanner: token too long")
       ELSE IF source.end = "err"
       THEN CanSend(errCh, errChCap) /\ errCh' = Send(errCh, "scan error")
       ELSE errCh' = errCh
    /\ pc' = "wait"
    /\ UNCHANGED <<parser, lastCall, emitted, views, source, ctx, scanned, pending,
                   metricsCh, consumer, aux>>

\* if wait != nil { if err := wait(); err != nil && ctx.Err() == nil { errCh <- err } }
Wait ==
    /\ pc = "wait"
    /\ IF source.kind = "pipe"
       THEN /\ WaitReturns
            /\ IF (source.killed \/ source.waitErr) /\ ctx # "cancelled"
               THEN CanSend(errCh, errChCap) /\ errCh' = Send(errCh, "exit error")
               ELSE errCh' = errCh
       ELSE errCh' = errCh
    /\ pc' = "closeErr"
    /\ aux' = [aux EXCEPT !.waits = IF source.kind = "pipe" THEN @ + 1 ELSE @]
    /\ UNCHANGED <<parser, lastCall, emitted, views, source, ctx, scanned, pending,
                   metricsCh, consumer>>

\* defer close(errCh)
CloseErr ==
    /\ pc = "closeErr"
    /\ errCh' = close(errCh)
    /\ pc' = "closeMetrics"
    /\ UNCHANGED <<parser, lastCall, emitted, views, source, ctx, scanned, pending,
                   metricsCh, consumer, aux>>

\* defer close(metricsCh)
CloseMetrics ==
    /\ pc = "closeMetrics"
    /\ metricsCh' = close(metricsCh)
    /\ pc' = "done"
    /\ UNCHANGED <<parser, lastCall, emitted, views, source, ctx, scanned, pending,
                   errCh, consumer, aux>>

Producer ==
    \/ Scan \/ Select \/ SendCancel \/ WaitCancel \/ Parse \/ SendMetrics
    \/ Flush \/ ScanErr \/ Wait \/ CloseErr \/ CloseMetrics

\* the consumer receives from stream.Metrics
RecvMetrics ==
    /\ consumer.active
    /\ metricsCh.buf # <<>>
    /\ consumer' = [consumer EXCEPT !.received = Append(@, Head(metricsCh.buf))]
    /\ metricsCh' = [metricsCh EXCEPT !.buf = Tail(@)]
    /\ UNCHANGED <<parser, lastCall, emitted, views, pc, source, ctx, scanned, pending,
                   errCh, aux>>

\* the consumer (or the draining goroutine of Run) receives from stream.Errors
RecvError ==
    /\ consumer.active
    /\ errCh.buf # <<>>
    /\ consumer' = [consumer EXCEPT !.errors = Append(@, Head(errCh.buf))]
    /\ errCh' = [errCh EXCEPT !.buf = Tail(@)]
    /\ UNCHANGED <<parser, lastCall, emitted, views, pc, source, ctx, scanned, pending,
                   metricsCh, aux>>

\* the consumer stops reading both channels
ConsumerStop ==
    /\ consumer.active
    /\ pc # "idle"
    /\ consumer' = [consumer EXCEPT !.active = FALSE]
    /\ UNCHANGED <<parser, lastCall, emitted, views, pc, source, ctx, scanned, pending,
                   metricsCh, errCh, aux>>

\* exec.Command instead of exec.CommandContext: the subprocess is not killed
CancelWithoutKill ==
    /\ ctx = "live"
    /\ ctx' = "cancelled"
    /\ aux' = [aux EXCEPT !.cancelledAt = pc]
    /\ UNCHANGED <<parser, lastCall, emitted, views, pc, source, scanned, pending,
                   metricsCh, errCh, consumer>>

\* the scanner has not yet returned false from Scan()
Reading == pc \in {"scan", "select", "parse"} \/ (pc = "send" /\ pending.then = "scan")

\* The caller cancels the context.  exec.CommandContext kills the
\* subprocess: the lines it had not written are lost and its pipe ends.  A
\* scanner that has already stopped keeps the error it stopped with.
Cancel ==
    /\ ctx = "live"
    /\ ctx' = "cancelled"
    /\ aux' = [aux EXCEPT !.cancelledAt = pc]
    /\ IF source.kind = "pipe" /\ ~Reading
       THEN source' = [source EXCEPT !.killed = TRUE]
       ELSE IF source.kind = "pipe"
       THEN \E rest \in Prefixes(source.lines) :
               \E e \in (IF source.end = "err" THEN {"eof", "err"} ELSE {"eof"}) :
                  source' = [source EXCEPT !.lines = rest, !.end = e, !.killed = TRUE]
       ELSE source' = source
    /\ UNCHANGED <<parser, lastCall, emitted, views, pc, scanned, pending, metricsCh,
                   errCh, consumer>>

NextStream == Producer \/ RecvMetrics \/ RecvError \/ ConsumerStop \/ Cancel

SpecStream == InitStream /\ [][NextStream]_vars

SpecBurst == InitBurst /\ [][NextStream]_vars

SpecContent == InitContent /\ [][NextStream]_vars

\* Run has returned stream.Metrics: the source is the pipe of the subprocess
\* RunWithErrors started, the caller holds the Metrics channel only, and the
\* goroutine Run started ranges over stream.Errors
InitRun ==
    /\ parser = NewParser(0)
    /\ lastCall = NoCall
    /\ emitted = <<>>
    /\ views = <<>>
    /\ pc = "scan"
    /\ scanned = ""
    /\ pending = NoPending
    /\ metricsCh = MakeChan
    /\ errCh = MakeChan
    /\ consumer = [NoConsumer EXCEPT !.active = TRUE]
    /\ aux = [NoAux EXCEPT !.drainer = "ranging"]
    /\ source \in {src \in Sources(StreamSources) : src.kind = "pipe"}
    /\ ctx \in {"background", "live"}

\* a goroutine that receives one error and returns
DrainOne ==
    /\ aux.drainer = "ranging"
    /\ errCh.buf # <<>>
    /\ errCh' = [errCh EXCEPT !.buf = Tail(@)]
    /\ aux' = [aux EXCEPT !.drainer = "done"]
    /\ UNCHANGED <<parser, lastCall, emitted, views, pc, source, ctx, scanned, pending,
                   metricsCh, consumer>>

\* for range stream.Errors {}: an error is received and discarded
Drain ==
    /\ aux.drainer = "ranging"
    /\ errCh.buf # <<>>
    /\ errCh' = [errCh EXCEPT !.buf = Tail(@)]
    /\ UNCHANGED <<parser, lastCall, emitted, views, pc, source, ctx, scanned, pending,
                   metricsCh, consumer, aux>>

\* ... and the range ends on the closed and empty channel
DrainEnd ==
    /\ aux.drainer = "ranging"
    /\ errCh.buf = <<>>
    /\ errCh.closed > 0
    /\ aux' = [aux EXCEPT !.drainer = "done"]
    /\ UNCHANGED <<parser, lastCall, emitted, views, pc, source, ctx, scanned, pending,
                   metricsCh, errCh, consumer>>

\* the caller of Run can receive from the Metrics channel only
NextRun == Producer \/ RecvMetrics \/ Drain \/ DrainEnd \/ ConsumerStop \/ Cancel

SpecRun == InitRun /\ [][NextRun]_vars

\* a step of the producer other than the ParseLine call
ProducerStep ==
    \/ Scan \/ Select \/ SendCancel \/ WaitCancel \/ SendMetrics
    \/ Flush \/ ScanErr \/ Wait \/ CloseErr \/ CloseMetrics

\* The Go scheduler runs a goroutine that can take a step: the producer takes
\* the step it is at when that step stays possible, and ParseLine, which
\* waits for nothing, returns.
ProducerScheduled ==
    /\ WF_vars(ProducerStep)
    /\ []<>(pc # "parse")

\* The consumer receives whatever is buffered for as long as it has not
\* stopped.
ConsumerScheduled ==
    /\ WF_vars(RecvMetrics)
    /\ WF_vars(RecvError)

FairStream ==
    InitStream /\ [][NextStream]_vars /\ ProducerScheduled /\ ConsumerScheduled

FairBurst == InitBurst /\ [][NextStream]_vars /\ ProducerScheduled

\* The goroutine of Run does nothing but range over the Errors channel.
DrainerScheduled ==
    /\ WF_vars(Drain)
    /\ WF_vars(DrainEnd)

FairRun ==
    InitRun /\ [][NextRun]_vars /\ ProducerScheduled /\ WF_vars(RecvMetrics)
        /\ DrainerScheduled

---------------------------------------------------------------------------
(* Properties of ParseLine.                                                *)

\* The line matches no extractor: no regular expression of the package
\* finds anything in it, it is no cluster residency line, and no block of
\* parseSystemMetrics reads a value from it.
MatchesNoExtractor(f) ==
    /\ \A r \in DOMAIN f.re : f.re[r] = <<>>
    /\ ~f.clusterHWActive
    /\ ~SystemMetricsState(NewParser(0), f).updated

\* C1: a snapshot ParseLine has returned keeps, whatever ParseLine is called
\* with later, the value every field reachable from it had when it was
\* returned.
C1_SnapshotsIndependent ==
    \A i \in DOMAIN emitted : Deref(emitted[i], parser) = views[i]

\* C2: in every parser state, ParseLine returns no snapshot for a line that
\* matches no extractor.
C2_InertLineEmitsNothing ==
    (lastCall.calls > 0 /\ MatchesNoExtractor(Analysis[lastCall.line]))
        => ~lastCall.metrics.some

\* C3: ParseLine returns a snapshot for every line that made an updater write
\* into the accumulator.
C3_WriteEmitsSnapshot ==
    (lastCall.calls > 0 /\ lastCall.wrote) => lastCall.metrics.some

InPercentRange(v) == 0 <= v /\ v <= 100 * Scale

MapInPercentRange(m) == \A k \in DOMAIN m : InPercentRange(m[k])

CPUResidencyInRange(cpu) ==
    /\ InPercentRange(cpu.IdleResidency)
    /\ InPercentRange(cpu.DownResidency)
    /\ MapInPercentRange(cpu.ActiveResidency)

ClusterResidencyInRange(cluster) ==
    /\ InPercentRange(cluster.HWActiveResidency)
    /\ MapInPercentRange(cluster.HWActiveFreqResidency)

GPUResidencyInRange(gpu) ==
    /\ InPercentRange(gpu.HWActiveResidency)
    /\ InPercentRange(gpu.IdleResidency)
    /\ MapInPercentRange(gpu.HWActiveFreqResidency)
    /\ MapInPercentRange(gpu.SWRequestedStates)
    /\ MapInPercentRange(gpu.SWStates)

SystemInRange(sys) ==
    InPercentRange(sys.GPUBusyPercent) /\ InPercentRange(sys.ANEBusyPercent)

ParserInRange(q) ==
    /\ \A n \in DOMAIN q.clusterInfo : InPercentRange(q.clusterInfo[n].OnlinePercent)
    /\ \A c \in DOMAIN q.cpuResidencies : CPUResidencyInRange(q.cpuResidencies[c])
    /\ \A n \in DOMAIN q.clusterResidencies :
           ClusterResidencyInRange(q.clusterResidencies[n])
    /\ GPUResidencyInRange(q.gpuResidency)
    /\ SystemInRange(q.system)

\* m: a snapshot; v: its value (its pointers followed)
SnapshotInRange(m, v) ==
    /\ \A i \in DOMAIN v.Clusters : InPercentRange(v.Clusters[i].OnlinePercent)
    /\ \A cpu \in v.CPUResidencies : CPUResidencyInRange(cpu)
    /\ \A cluster \in v.ClusterResidencies : ClusterResidencyInRange(cluster)
    /\ m.GPUResidency # NIL => GPUResidencyInRange(v.GPUResidency)
    /\ m.SystemSample # NIL => SystemInRange(v.SystemSample)
    /\ \A i \in DOMAIN v.GPUProcessSamples : InPercentRange(v.GPUProcessSamples[i].BusyPercent)

\* C10: every percentage of the parser state and of every snapshot returned
\* lies in [0, 100].
C10_PercentagesInRange ==
    /\ ParserInRange(parser)
    /\ \A i \in DOMAIN views : SnapshotInRange(emitted[i], views[i])

---------------------------------------------------------------------------
(* Properties of the stream.                                               *)

\* the producer has returned and both channels are closed
Finished == pc = "done" /\ metricsCh.closed = 1 /\ errCh.closed = 1

\* the errors sent on the Errors channel so far, in order
ErrorsSent == consumer.errors \o errCh.buf

\* the snapshots handed to the Metrics channel so far, in order, the one the
\* producer is sending included
SnapshotsSent ==
    consumer.received \o metricsCh.buf
        \o (IF pc = "send" THEN <<pending.m>> ELSE <<>>)

\* the points of the read loop
LoopPoints == {"scan", "select", "parse", "send"}

\* scanner.Scan() is inside a Read that does not return
ReaderBlocked ==
    pc = "scan" /\ source.kind = "reader" /\ source.lines = <<>> /\ source.end = "block"

\* C4: however the producer finishes, each channel is closed exactly once,
\* and nothing is sent on a channel that has been closed.
C4_ChannelsClosedOnce ==
    /\ metricsCh.closed <= 1 /\ errCh.closed <= 1
    /\ ~metricsCh.sentClosed /\ ~errCh.sentClosed
    /\ pc = "done" => metricsCh.closed = 1 /\ errCh.closed = 1

\* the producer has finished after it observed the cancellation
C4_FinishedAfterCancel ==
    /\ pc = "done"
    /\ \E i \in DOMAIN ErrorsSent : ErrorsSent[i] = "context canceled"

\* C5: for a source that ends, once the consumer has stopped receiving the
\* producer still finishes and closes both channels.
C5_FinishesWithoutConsumer ==
    (source.end = "eof") => ((~consumer.active) ~> Finished)

\* C5, amended: ... unless it is blocked sending a snapshot on the Metrics
\* channel, whose buffer holds 128 snapshots nobody receives.
C5_FinishesOrBlockedOnFullBuffer ==
    (source.end = "eof") =>
        ((~consumer.active) ~>
            (Finished \/ (pc = "send" /\ Len(metricsCh.buf) = metricsChCap)))

\* the consumer stopped, snapshots stay unreceived, the producer finished
C5_FinishedWithUnreceived ==
    ~consumer.active /\ Finished /\ Len(metricsCh.buf) >= 2

\* C6: when the context is cancelled while the producer is in the read
\* loop, exactly one cancellation error has been sent on the Errors channel
\* by the time the channel is closed.
C6_OneCancellationError ==
    (errCh.closed = 1 /\ aux.cancelledAt \in LoopPoints)
        => Cardinality({i \in DOMAIN ErrorsSent : ErrorsSent[i] = "context canceled"}) = 1

\* C7: after the context is cancelled, with a consumer that keeps receiving,
\* both channels are closed, whatever the source.
C7_TerminatesAfterCancel ==
    (ctx = "cancelled") ~> (Finished \/ ~consumer.active)

\* C7, amended: ... unless the source is a reader whose Read does not
\* return: the producer sees the cancellation only after a line is read.
C7_TerminatesUnlessReaderBlocks ==
    (ctx = "cancelled") ~> (Finished \/ ~consumer.active \/ ReaderBlocked)

\* cancelled inside the read loop, the producer has finished while the
\* consumer was still receiving
C7_FinishedAfterCancelInLoop ==
    aux.cancelledAt \in LoopPoints /\ Finished /\ consumer.active

\* C8: absent cancellation, the snapshots received, then those buffered,
\* then the one being sent are the snapshots ParseLine returned, in order:
\* none dropped, none duplicated.
C8_ReceivedInOrder ==
    (ctx # "cancelled") => SnapshotsSent = emitted

\* the buffer is full, the producer waits to send, the consumer is behind
C8_BufferFull ==
    /\ ctx # "cancelled"
    /\ pc = "send"
    /\ Len(metricsCh.buf) = metricsChCap
    /\ consumer.received # <<>>

\* C9: the producer never writes an object that a snapshot the consumer
\* has received points to.
C9_NoRace == ~aux.race

---------------------------------------------------------------------------
(* Properties of the accumulator.                                          *)

\* the entities of parser p are all entities of parser q
EntitiesKept(p, q) ==
    /\ DOMAIN p.clusterInfo \subseteq DOMAIN q.clusterInfo
    /\ DOMAIN p.cpuResidencies \subseteq DOMAIN q.cpuResidencies
    /\ DOMAIN p.clusterResidencies \subseteq DOMAIN q.clusterResidencies
    /\ DOMAIN p.interruptInfo \subseteq DOMAIN q.interruptInfo
    /\ p.networkInfo.alloc => q.networkInfo.alloc
    /\ p.diskInfo.alloc => q.diskInfo.alloc

\* C11: over any sequence of ParseLine calls the key set of each accumulator
\* map (clusterInfo, cpuResidencies, clusterResidencies, interruptInfo) only
\* grows, and networkInfo and diskInfo, once non-nil, stay non-nil: no line
\* removes an entity.
C11_EntitiesNeverRemoved == [][EntitiesKept(parser, parser')]_vars

\* two clusters and a CPU are known after three calls
C11_ThreeEntities ==
    /\ lastCall.calls = 3
    /\ DOMAIN parser.clusterInfo = {"E-Cluster", "P0-Cluster"}
    /\ DOMAIN parser.cpuResidencies # {}

\* the cluster each Online line of AccumulatorLines names
OnlineLines ==
    [raw \in {"E-Cluster Online: 100%", "E-Cluster Online: 50%",
              "E-Cluster Online: 1.2.3%"} |-> "E-Cluster"]
    @@ [raw \in {"P0-Cluster Online: 150%"} |-> "P0-Cluster"]

\* the cluster each HW-active-frequency line of AccumulatorLines names
HWFreqLines ==
    [raw \in {"E-Cluster HW active frequency: 1200 MHz"} |-> "E-Cluster"]
    @@ [raw \in {"P0-Cluster HW active frequency: 2400 MHz"} |-> "P0-Cluster"]

\* a ClusterInfo as its first line finds it
FirstSeen(name) ==
    [ Name |-> name,
      Type |-> IF SubSeq(name, 1, 2) = "E-" THEN "Efficiency" ELSE "Performance",
      OnlinePercent |-> 0,
      HWActiveFreq |-> 0 ]

\* records a and b agree on every field but the one named
SameExcept(a, b, field) == \A k \in DOMAIN a : k # field => a[k] = b[k]

\* the map old becomes new at a line that reports field of cluster name
ClusterUpdated(old, new, name, field) ==
    /\ DOMAIN new = DOMAIN old \cup {name}
    /\ \A n \in DOMAIN old \ {name} : new[n] = old[n]
    /\ SameExcept(IF name \in DOMAIN old THEN old[name] ELSE FirstSeen(name),
                  new[name], field)

\* what the call of line raw did to the cluster map
ClusterLineStep(raw, old, new) ==
    IF raw \in DOMAIN OnlineLines
    THEN ClusterUpdated(old, new, OnlineLines[raw], "OnlinePercent")
    ELSE IF raw \in DOMAIN HWFreqLines
    THEN ClusterUpdated(old, new, HWFreqLines[raw], "HWActiveFreq")
    ELSE new = old

\* C12: there is one ClusterInfo per cluster name; the first line naming a
\* cluster creates it with Type "Efficiency" if the name starts with "E-" and
\* "Performance" otherwise; a later line for the name updates that entry in
\* place, an Online line changing only OnlinePercent and an HW-active-frequency
\* line only HWActiveFreq, adding no entry and keeping Type.
C12_OneEntryPerCluster ==
    [][lastCall'.calls # lastCall.calls =>
          /\ ClusterLineStep(lastCall'.line, parser.clusterInfo, parser'.clusterInfo)
          /\ \A n \in DOMAIN parser'.clusterInfo : parser'.clusterInfo[n].Name = n]_vars

\* an Online line, another Online line and a frequency line of one cluster
C12_UpdatedInPlace ==
    /\ lastCall.calls = 3
    /\ DOMAIN parser.clusterInfo = {"E-Cluster"}
    /\ parser.clusterInfo["E-Cluster"].OnlinePercent = 50 * Scale
    /\ parser.clusterInfo["E-Cluster"].HWActiveFreq = 1200 * Scale

\* the Clusters of snapshot m are the clusters of parser p, one element each,
\* in strictly ascending order of name
ClustersListed(m, p) ==
    /\ Len(m.Clusters) = Cardinality(DOMAIN p.clusterInfo)
    /\ \A i \in DOMAIN m.Clusters :
          /\ m.Clusters[i].Name \in DOMAIN p.clusterInfo
          /\ m.Clusters[i] = p.clusterInfo[m.Clusters[i].Name]
    /\ \A i \in 1..(Len(m.Clusters) - 1) :
          StrLess(m.Clusters[i].Name, m.Clusters[i + 1].Name)

\* C13 as stated: in every emitted snapshot the Clusters list is in strictly
\* ascending order of cluster name and holds one element for each cluster seen
\* so far, whatever the order in which the clusters were first seen.
C13_EverySnapshotListsClusters ==
    lastCall.metrics.some => ClustersListed(lastCall.metrics, parser)

\* C13, amended: in every emitted snapshot other than the standalone snapshot
\* of a GPU-process line the Clusters list is in strictly ascending order of
\* cluster name and holds one element for each cluster seen so far, whatever
\* the order in which the clusters were first seen.
C13_AccumulatorSnapshotListsClusters ==
    lastCall.metrics.some /\ lastCall.metrics.GPUProcessSamples = <<>>
        => ClustersListed(lastCall.metrics, parser)

\* P0-Cluster was seen before E-Cluster and is listed after it
C13_ListedAgainstArrival ==
    /\ Len(emitted) >= 2
    /\ Len(emitted[1].Clusters) = 1
    /\ emitted[1].Clusters[1].Name = "P0-Cluster"
    /\ Len(lastCall.metrics.Clusters) = 2
    /\ lastCall.metrics.Clusters[1].Name = "E-Cluster"
    /\ lastCall.metrics.Clusters[2].Name = "P0-Cluster"

---------------------------------------------------------------------------
(* Properties of the stream over unparseable content.                      *)

\* the lines of the source: those parsed, the one in hand, those not yet read
LinesAccounted ==
    lastCall.calls + Len(source.lines) + (IF pc \in {"select", "parse"} THEN 1 ELSE 0)

\* the errors sent that the text of a line caused
ContentErrors ==
    {i \in DOMAIN ErrorsSent :
        \/ HasPrefix(ErrorsSent[i], "parse line")
        \/ ErrorsSent[i] = "bufio.Scanner: token too long"}

\* C15: the content of the input never ends a stream early: while the stream
\* is not cancelled the producer leaves the read loop only at the end of the
\* source, every line it read is parsed and none is skipped, and no error
\* caused by the content of a line is sent on the Errors channel.
C15_ContentNeverEndsStream ==
    /\ [](ContentErrors = {})
    /\ [](ctx # "cancelled" /\ pc \notin LoopPoints => source.lines = <<>>)
    /\ [][ctx' # "cancelled" => LinesAccounted' = LinesAccounted]_vars

---------------------------------------------------------------------------
(* Properties of the scalar lines.                                         *)

\* the power lines of ScalarLines: the SystemSample field each reports and
\* the power it states, in milliwatts
PowerLines ==
    [raw \in {"CPU Power: 954 mW"} |-> [field |-> "CPUPowerWatts", milliwatts |-> 954]]
    @@ [raw \in {"CPU Power: 15.5 W"} |-> [field |-> "CPUPowerWatts", milliwatts |-> 15500]]
    @@ [raw \in {"GPU Power: 20 mW"} |-> [field |-> "GPUPowerWatts", milliwatts |-> 20]]
    @@ [raw \in {"GPU Power: 2 W"} |-> [field |-> "GPUPowerWatts", milliwatts |-> 2000]]
    @@ [raw \in {"ANE Power: 5 mW"} |-> [field |-> "ANEPowerWatts", milliwatts |-> 5]]

\* watts as the model holds them, from milliwatts
Watts(milliwatts) == (milliwatts * Scale) \div 1000

\* C16: a power line whose value is given in milliwatts ("CPU Power: 954 mW",
\* and likewise GPU Power and ANE Power) is stored converted to watts, the
\* number divided by 1000 (0.954); a line given in W stores the number
\* unchanged.
C16_MilliwattsStoredAsWatts ==
    lastCall.line \in DOMAIN PowerLines =>
        parser.system[PowerLines[lastCall.line].field]
            = Watts(PowerLines[lastCall.line].milliwatts)

\* the GPU power lines of ScalarLines and the milliwatts each reports
GPUPowerLines ==
    [raw \in {"GPU Power: 20 mW"} |-> 20]
    @@ [raw \in {"GPU Power: 2 W"} |-> 2000]

\* C17: GPUResidencyMetrics.PowerMilliwatts holds the GPU power in milliwatts
\* that the most recent GPU power line reported, 0 before any such line: a
\* "GPU Power: N mW" line makes it N, a "GPU Power: X W" line makes it
\* 1000*X, and no other line (no GPU frequency line in particular) changes it.
C17_PowerMilliwattsFromPowerLine ==
    /\ [](lastCall.calls = 0 => parser.gpuResidency.PowerMilliwatts = 0)
    /\ [][lastCall'.calls # lastCall.calls =>
             parser'.gpuResidency.PowerMilliwatts =
                 IF lastCall'.line \in DOMAIN GPUPowerLines
                 THEN GPUPowerLines[lastCall'.line] * Scale
                 ELSE parser.gpuResidency.PowerMilliwatts]_vars

\* the states the GPU state lines of ScalarLines list
SWStateLine == "GPU SW state: (SW_P1 : 1.6% SW_P2 :   0%)"

SWRequestedStateLine == "GPU SW requested state: (P1 : 100% P2 :   0%)"

ListedStates ==
    [raw \in {SWStateLine} |-> [name \in {"SW_P1", "SW_P2"} |->
                                    IF name = "SW_P1" THEN (16 * Scale) \div 10 ELSE 0]]
    @@ [raw \in {SWRequestedStateLine} |-> [name \in {"P1", "P2"} |->
                                    IF name = "P1" THEN 100 * Scale ELSE 0]]

\* C18: a "GPU SW state: (SW_P1 : 1.6% SW_P2 :   0% ...)" line parsed on a
\* fresh parser records every listed state with its percentage in
\* GPUResidency.SWStates and yields a snapshot whose GPUResidency is present;
\* a "GPU SW requested state: (P1 : 100% P2 :   0% ...)" line likewise records
\* every listed state in SWRequestedStates, however many spaces separate the
\* tokens.
C18_ListedStatesRecorded ==
    /\ lastCall.calls = 1 /\ lastCall.line = SWStateLine =>
          /\ parser.gpuResidency.SWStates = ListedStates[SWStateLine]
          /\ lastCall.metrics.some
          /\ lastCall.metrics.GPUResidency # NIL
    /\ lastCall.line = SWRequestedStateLine =>
          parser.gpuResidency.SWRequestedStates = ListedStates[SWRequestedStateLine]

\* the lines of ScalarLines that report one scalar of the SystemSample
RestatedLines == DOMAIN PowerLines \cup {"Battery: percent_charge: 36"}

\* C19: parsing the same scalar-reporting line twice in a row (a battery line,
\* a CPU power line with an unchanged value) leaves the accumulated value
\* equal to what it was after the first parse, and ParseLine returns a
\* snapshot on the first and on the second parse.
C19_RestatedScalarEmitsAgain ==
    [][/\ lastCall.calls >= 1
       /\ lastCall'.calls = lastCall.calls + 1
       /\ lastCall.line \in RestatedLines
       /\ lastCall'.line = lastCall.line
       => /\ parser'.system = parser.system
          /\ lastCall.metrics.some
          /\ lastCall'.metrics.some]_vars

---------------------------------------------------------------------------
(* Properties of the GPU-process lines.                                    *)

\* the process lines of ParserLines, with and without the percentage, and
\* the pid and name each states
ProcessLines ==
    [raw \in {"pid 1234 Safari 5.2ms (85.5%)"} |-> [PID |-> 1234, Name |-> "Safari"]]
    @@ [raw \in {"pid 77 WindowServer 12us"} |-> [PID |-> 77, Name |-> "WindowServer"]]

\* snapshot m holds one process sample of that pid and name and nothing else
Standalone(m, process) ==
    /\ m.some
    /\ Len(m.GPUProcessSamples) = 1
    /\ m.GPUProcessSamples[1].PID = process.PID
    /\ m.GPUProcessSamples[1].Name = process.Name
    /\ m.SystemSample = NIL
    /\ m.Network = NIL
    /\ m.Disk = NIL
    /\ m.GPUResidency = NIL
    /\ m.Clusters = <<>>
    /\ m.CPUResidencies = {}
    /\ m.ClusterResidencies = {}
    /\ m.Interrupts = {}

\* C20: in every parser state a line matching the GPU-process pattern, with
\* or without the percentage, makes ParseLine return a snapshot that holds
\* exactly one GPUProcessSample and nothing else: SystemSample is nil and
\* every other sub-structure is absent, whatever the accumulator holds.
C20_ProcessSnapshotStandalone ==
    lastCall.line \in DOMAIN ProcessLines =>
        Standalone(lastCall.metrics, ProcessLines[lastCall.line])

\* a process line without percentage, parsed when the accumulator holds a
\* cluster and network data
C20_ProcessLineOnFilledAccumulator ==
    /\ lastCall.line = "pid 77 WindowServer 12us"
    /\ DOMAIN parser.clusterInfo # {}
    /\ parser.networkInfo.alloc

---------------------------------------------------------------------------
(* Properties of the lines ParseLine rejects.                              *)

\* the lines of ParserLines that are empty after trimming, start with "--"
\* or are a section banner
RejectedLines == {"   ", "--- sample ---", "**** GPU usage ****"}

\* C21: in every parser state a line that is empty after trimming, starts
\* with "--" or is a recognized section banner makes ParseLine return no
\* snapshot and no error and leaves the whole accumulator unchanged.
C21_RejectedLineIsNoOp ==
    [][lastCall'.calls # lastCall.calls /\ lastCall'.line \in RejectedLines =>
          /\ ~lastCall'.metrics.some
          /\ lastCall'.err = NIL
          /\ ~lastCall'.wrote
          /\ parser' = parser
          /\ emitted' = emitted]_vars

\* a banner was parsed by a parser that holds a cluster and system data
C21_BannerOnFilledAccumulator ==
    /\ lastCall.calls = 3
    /\ lastCall.line = "**** GPU usage ****"
    /\ DOMAIN parser.clusterInfo # {}
    /\ parser.system.CPUPowerWatts > 0

---------------------------------------------------------------------------
(* Properties of the interrupt blocks.                                     *)

\* the pass of source.lines has been parsed to its end
PassDone == source.kind = "feed" /\ lastCall.calls = Len(source.lines)

\* the entry of CPU n as its block in pass states it
BlockEntry(pass, n) ==
    [ CPUID    |-> n,
      TotalIRQ |-> TotalLines[pass[4 * n + 2]],
      IPI      |-> IPILines[pass[4 * n + 3]],
      TIMER    |-> TIMERLines[pass[4 * n + 4]] ]

\* every CPU of pass has the three rates of its own block in info
OwnRates(pass, info) ==
    /\ DOMAIN info = 0..((Len(pass) \div 4) - 1)
    /\ \A n \in DOMAIN info : info[n] = BlockEntry(pass, n)

\* no line of pass reports a rate of 0
NoZeroRate(pass) ==
    \A n \in 0..((Len(pass) \div 4) - 1) :
        /\ BlockEntry(pass, n).TotalIRQ # 0
        /\ BlockEntry(pass, n).IPI # 0
        /\ BlockEntry(pass, n).TIMER # 0

---------------------------------------------------------------------------
(* Properties of the end of the stream.                                    *)

\* the errors sent that wait() returned
ExitErrors == {i \in DOMAIN ErrorsSent : ErrorsSent[i] = "exit error"}

\* the points after every send
ClosingPoints == {"closeErr", "closeMetrics", "done"}

\* C23: when a wait callback is supplied it is invoked exactly once per stream
\* on every path (normal end and cancellation), only after the last line has
\* been read; a non-nil error it returns is sent on the Errors channel exactly
\* once, after every snapshot, if and only if the context was not cancelled.
C23_WaitOnceAndReported ==
    /\ [](source.kind = "pipe" => aux.waits <= 1)
    /\ [](source.kind = "pipe" /\ Finished => aux.waits = 1)
    /\ [](aux.waits > 0 => pc \in ClosingPoints)
    /\ [](Cardinality(ExitErrors) <= 1)
    /\ [](ExitErrors # {} => pc \in ClosingPoints)
    /\ [][aux'.waits # aux.waits =>
             (ExitErrors' # ExitErrors
                 <=> (source.waitErr \/ source.killed) /\ ctx # "cancelled")]_vars

\* the subprocess failed, nothing was cancelled, and its error was sent after
\* a snapshot
C23_ExitErrorAfterSnapshot ==
    /\ Finished
    /\ source.kind = "pipe"
    /\ ctx # "cancelled"
    /\ ExitErrors # {}
    /\ SnapshotsSent # <<>>

\* the cancellation error has been sent: the producer left by that branch
CancelSent == \E i \in DOMAIN ErrorsSent : ErrorsSent[i] = "context canceled"

\* scanner.Scan() has returned false on a read error of the source
ReadFault ==
    /\ ~Reading
    /\ pc \notin {"sendCancel", "waitCancel"}
    /\ ~CancelSent
    /\ source.end = "err"
    /\ ~source.tooLong

\* the read errors sent
ScanErrors == {i \in DOMAIN ErrorsSent : ErrorsSent[i] = "scan error"}

\* the producer is in wait() and the subprocess has not exited
WaitingForExit == pc = "wait" /\ source.kind = "pipe" /\ ~WaitReturns

\* When the source reports a read error the error is sent once, no line is
\* parsed after it, and the snapshots of the lines read before it have all
\* been sent on a channel not yet closed.
ReadFaultSurfaced ==
    /\ [](Cardinality(ScanErrors) <= 1)
    /\ [](ReadFault /\ pc \in {"wait"} \cup ClosingPoints => Cardinality(ScanErrors) = 1)
    /\ [](ReadFault => SnapshotsSent = emitted /\ ~metricsCh.sentClosed)
    /\ [][ReadFault => lastCall' = lastCall]_vars

---------------------------------------------------------------------------
(* Properties of the snapshots of the accumulator.                         *)

\* snapshot m is not a GPU-process snapshot
OfAccumulator(m) == m.some /\ m.GPUProcessSamples = <<>>

\* the sub-structures snapshot m contains
Contained(m) ==
    [ Clusters           |-> m.Clusters # <<>>,
      CPUResidencies     |-> m.CPUResidencies # {},
      ClusterResidencies |-> m.ClusterResidencies # {},
      Interrupts         |-> m.Interrupts # {},
      Network            |-> m.Network # NIL,
      Disk               |-> m.Disk # NIL ]

\* the sub-structures whose backing store in parser p is non-empty or non-nil
Backed(p) ==
    [ Clusters           |-> DOMAIN p.clusterInfo # {},
      CPUResidencies     |-> DOMAIN p.cpuResidencies # {},
      ClusterResidencies |-> DOMAIN p.clusterResidencies # {},
      Interrupts         |-> DOMAIN p.interruptInfo # {},
      Network            |-> p.networkInfo.alloc,
      Disk               |-> p.diskInfo.alloc ]

\* C25: every snapshot that is not a GPU-process snapshot has a non-nil
\* SystemSample holding the current cumulative scalars, and contains Clusters,
\* CPUResidencies, ClusterResidencies, Interrupts, Network and Disk exactly
\* when the corresponding map of the accumulator is non-empty or the pointer
\* is non-nil; so a sub-structure that one such snapshot contains every later
\* one contains too.
C25_SnapshotMirrorsAccumulator ==
    /\ OfAccumulator(lastCall.metrics) =>
          /\ lastCall.metrics.SystemSample = "p.system"
          /\ views[Len(views)].SystemSample = parser.system
          /\ Contained(lastCall.metrics) = Backed(parser)
    /\ \A i \in DOMAIN emitted : \A j \in DOMAIN emitted :
          i < j /\ OfAccumulator(emitted[i]) /\ OfAccumulator(emitted[j]) =>
             \A part \in DOMAIN Contained(emitted[i]) :
                Contained(emitted[i])[part] => Contained(emitted[j])[part]

\* a snapshot of an idle network, with the interrupts and the CPU residencies
\* an earlier snapshot did not have yet, and no disk
C25_IdleNetworkListed ==
    /\ Len(emitted) >= 2
    /\ OfAccumulator(emitted[1])
    /\ ~Contained(emitted[1]).Interrupts
    /\ OfAccumulator(lastCall.metrics)
    /\ Contained(lastCall.metrics).Interrupts
    /\ Contained(lastCall.metrics).CPUResidencies
    /\ Contained(lastCall.metrics).Network
    /\ parser.networkInfo.OutPacketsPerSec = 0
    /\ parser.networkInfo.InPacketsPerSec = 0
    /\ ~Contained(lastCall.metrics).Disk

---------------------------------------------------------------------------
(* Properties of the network and disk lines.                               *)

\* the rates the network and disk lines report, in thousandths: packets/s
\* and bytes/s, ops/s and KBytes/s
OutLines ==
    [raw \in {"out: 57.75 packets/s, 4586.65 bytes/s"} |-> <<57750, 4586650>>]
    @@ [raw \in {"out: 0 packets/s, 0 bytes/s"} |-> <<0, 0>>]

InLines == [raw \in {"in: 12 packets/s, 900 bytes/s"} |-> <<12000, 900000>>]

ReadLines == [raw \in {"read: 1.5 ops/s 2.5 KBytes/s"} |-> <<1500, 2500>>]

WriteLines == [raw \in {"write: 3 ops/s 4 KBytes/s"} |-> <<3000, 4000>>]

\* the fields of one direction
OutRates(n) == <<n.OutPacketsPerSec, n.OutBytesPerSec>>
InRates(n) == <<n.InPacketsPerSec, n.InBytesPerSec>>
ReadRates(d) == <<d.ReadOpsPerSec, d.ReadBytesPerSec>>
WriteRates(d) == <<d.WriteOpsPerSec, d.WriteBytesPerSec>>

\* ops/s as reported and KBytes/s times 1024
InBytes(rates) == <<rates[1], rates[2] * 1024>>

\* the ParseLine call of this step was given a line of lines
Parsing(lines) == lastCall'.calls = lastCall.calls + 1 /\ lastCall'.line \in lines

\* C26: an "out:" line sets the Out packet and byte rates and leaves the In
\* rates unchanged, an "in:" line does the reverse, a "read:" line sets
\* ReadOpsPerSec and ReadBytesPerSec (KBytes/s times 1024) and leaves the
\* Write fields unchanged, a "write:" line does the reverse; after both lines
\* of a pair all four fields hold the reported values.
C26_OwnDirectionOnly ==
    /\ [][Parsing(DOMAIN OutLines) =>
            /\ OutRates(parser'.networkInfo) = OutLines[lastCall'.line]
            /\ InRates(parser'.networkInfo) = InRates(parser.networkInfo)
            /\ parser'.diskInfo = parser.diskInfo]_vars
    /\ [][Parsing(DOMAIN InLines) =>
            /\ InRates(parser'.networkInfo) = InLines[lastCall'.line]
            /\ OutRates(parser'.networkInfo) = OutRates(parser.networkInfo)
            /\ parser'.diskInfo = parser.diskInfo
            /\ lastCall.line \in DOMAIN OutLines =>
                  OutRates(parser'.networkInfo) = OutLines[lastCall.line]]_vars
    /\ [][Parsing(DOMAIN ReadLines) =>
            /\ ReadRates(parser'.diskInfo) = InBytes(ReadLines[lastCall'.line])
            /\ WriteRates(parser'.diskInfo) = WriteRates(parser.diskInfo)
            /\ parser'.networkInfo = parser.networkInfo]_vars
    /\ [][Parsing(DOMAIN WriteLines) =>
            /\ WriteRates(parser'.diskInfo) = InBytes(WriteLines[lastCall'.line])
            /\ ReadRates(parser'.diskInfo) = ReadRates(parser.diskInfo)
            /\ parser'.networkInfo = parser.networkInfo
            /\ lastCall.line \in DOMAIN ReadLines =>
                  ReadRates(parser'.diskInfo) = InBytes(ReadLines[lastCall.line])]_vars

\* both lines of the network pair have been parsed, the "in:" line last, and
\* the snapshot carries the four rates
C26_BothDirectionsReported ==
    /\ lastCall.calls = 3
    /\ lastCall.line \in DOMAIN InLines
    /\ lastCall.metrics.some
    /\ OutRates(views[Len(views)].Network) = <<57750, 4586650>>
    /\ InRates(views[Len(views)].Network) = <<12000, 900000>>
    /\ parser.diskInfo.alloc

---------------------------------------------------------------------------
(* Properties of Run.                                                      *)

\* the goroutine of Run has returned
Drained == aux.drainer = "done"

\* the subprocess has exited or will once it has written its lines
SubprocessEnds == source.end = "eof" \/ source.killed

\* C27: with Run the caller receives only the snapshots while a background
\* goroutine receives and discards every error; that goroutine terminates when
\* the Errors channel is closed at the end of the stream, so neither it nor
\* the producer is leaked by a caller that only drains snapshots.
C27_RunLeaksNothing ==
    /\ [](consumer.errors = <<>>)
    /\ [](Drained => errCh.closed = 1 /\ errCh.buf = <<>>)
    /\ [](Finished => <>(Drained /\ errCh.buf = <<>>))
    /\ ([]consumer.active) => (SubprocessEnds ~> (Finished /\ Drained))

\* the subprocess failed after a snapshot; its exit error was discarded, both
\* goroutines have ended and the caller has the snapshot
C27_ErrorDiscardedAtEnd ==
    /\ Finished
    /\ Drained
    /\ source.waitErr
    /\ ctx # "cancelled"
    /\ aux.waits = 1
    /\ consumer.active
    /\ consumer.received # <<>>
    /\ metricsCh.buf = <<>>

---------------------------------------------------------------------------
(* Properties of the order of ParseLine.                                   *)

\* the sample lines the GPU-process pattern matches
MatchingProcLine == {raw \in SampleLines : Analysis[raw].process.matched}

\* C28: the GPU-process pattern is tried before any accumulation: processing
\* a line that matches it leaves the whole accumulator (system sample,
\* clusters, CPU and cluster residencies, interrupts, network, disk, GPU
\* residency) unchanged.
C28_ProcessLineLeavesAccumulator ==
    [][Parsing(MatchingProcLine) =>
          /\ parser' = parser
          /\ ~lastCall'.wrote
          /\ lastCall'.metrics.GPUProcessSamples # <<>>]_vars

---------------------------------------------------------------------------
(* Properties of deriveBusyPercent.                                        *)

\* value is a percentage of [0, 100]
InRange(value) == value # NaN /\ 0 <= value /\ value <= 100 * Scale

\* value brought into [0, 100]
Clamped(value) == IF value < 0 THEN 0 ELSE IF value > 100 * Scale THEN 100 * Scale ELSE value

\* the percent strings that are present and numeric, and their values
NumericPercents ==
    [s \in {"0"} |-> 0] @@ [s \in {"85.5"} |-> (855 * Scale) \div 10]
    @@ [s \in {"150"} |-> 150 * Scale] @@ [s \in {"-5"} |-> 0 - 5 * Scale]
    @@ [s \in {"NaN", "nan"} |-> NaN]

\* active / window * 100, in thousandths
ShareOfWindow(activeNs, window) == (activeNs \div 100) \div (window \div 10000000)

---------------------------------------------------------------------------
(* Properties of the GPU frequency of the process samples.                 *)

\* the GPU frequency lines and the MHz each reports, in thousandths
FrequencyLines ==
    [raw \in {"GPU HW active frequency: 444 MHz"} |-> 444 * Scale]
    @@ [raw \in {"GPU HW active frequency: 900 MHz"} |-> 900 * Scale]

\* C30: the FrequencyMHz of every emitted GPUProcessSample is the value of
\* the most recent GPU frequency line parsed before the process line on the
\* same parser, and 0 when none has been parsed; process lines never change
\* the remembered frequency.  (The parser remembers 0 at first, the value of
\* each GPU frequency line after it, and what it remembered after any other
\* line; a process sample carries what the parser remembered.)
C30_SampleCarriesLatestFrequency ==
    /\ [](lastCall.calls = 0 => parser.frequencyMHz = 0)
    /\ [][Parsing(DOMAIN FrequencyLines) =>
            parser'.frequencyMHz = FrequencyLines[lastCall'.line]]_vars
    /\ [][Parsing(SampleLines \ DOMAIN FrequencyLines) =>
            parser'.frequencyMHz = parser.frequencyMHz]_vars
    /\ [][Parsing(MatchingProcLine) =>
            /\ Len(lastCall'.metrics.GPUProcessSamples) = 1
            /\ lastCall'.metrics.GPUProcessSamples[1].FrequencyMHz = parser.frequencyMHz]_vars

\* a process sample that carries the second of two GPU frequencies
C30_SecondFrequencyCarried ==
    /\ lastCall.calls = 3
    /\ lastCall.line \in MatchingProcLine
    /\ Len(emitted) = 3
    /\ emitted[1].SystemSample # NIL
    /\ emitted[2].SystemSample # NIL
    /\ views[1].SystemSample.GPUFrequencyMHz = 444 * Scale
    /\ views[2].SystemSample.GPUFrequencyMHz = 900 * Scale
    /\ lastCall.metrics.GPUProcessSamples[1].FrequencyMHz = 900 * Scale

---------------------------------------------------------------------------
(* Properties of the interrupt entries over repeated cycles.               *)

InterruptFields == {"TotalIRQ", "IPI", "TIMER"}

\* the lines that report a rate for field
RateLines(field) ==
    CASE field = "TotalIRQ" -> DOMAIN TotalLines
      [] field = "IPI"      -> DOMAIN IPILines
      [] field = "TIMER"    -> DOMAIN TIMERLines

\* every known entry has a non-zero value in field
AllSet(info, field) == \A c \in DOMAIN info : info[c][field] # 0

\* C31: TotalIRQ, IPI and TIMER of an interrupt entry are each write-once:
\* after a field has received a non-zero value no later line changes it, so
\* when every known entry already has a non-zero field a further "Total IRQ",
\* "IPI" or "TIMER" line changes no interrupt entry.
C31_RatesWriteOnce ==
    /\ [][\A c \in DOMAIN parser.interruptInfo :
            /\ c \in DOMAIN parser'.interruptInfo
            /\ \A field \in InterruptFields :
                  parser.interruptInfo[c][field] # 0 =>
                     parser'.interruptInfo[c][field] = parser.interruptInfo[c][field]]_vars
    /\ [][\A field \in InterruptFields :
            Parsing(RateLines(field)) /\ AllSet(parser.interruptInfo, field) =>
               parser'.interruptInfo = parser.interruptInfo]_vars

\* a second Total IRQ line with another rate has left the only entry at the
\* rate of the first
C31_SecondRateIgnored ==
    /\ lastCall.calls = 3
    /\ lastCall.line = "Total IRQ: 20 interrupts/sec"
    /\ DOMAIN parser.interruptInfo = {1}
    /\ parser.interruptInfo[1].TotalIRQ = (105 * Scale) \div 10

---------------------------------------------------------------------------
(* Properties of the Errors channel.                                       *)

\* the producer is at a statement that may send on the Errors channel
AtErrorSend == pc \in {"sendCancel", "parse", "scanErr", "wait"}

\* C32: in one stream the producer sends at most two values on the Errors
\* channel (one cancellation error, or at most one scan error and at most one
\* wait error), so with the capacity of 16 a send on the Errors channel never
\* blocks, even when nobody receives from it.
C32_AtMostTwoErrors ==
    /\ Len(ErrorsSent) <= 2
    /\ CancelSent => Len(ErrorsSent) = 1
    /\ Cardinality({i \in DOMAIN ErrorsSent :
                       ErrorsSent[i] \in {"scan error", "bufio.Scanner: token too long"}}) <= 1
    /\ Cardinality(ExitErrors) <= 1
    /\ AtErrorSend => CanSend(errCh, errChCap)

\* a stream has ended with a scan error and an exit error sent and nothing
\* received from the Errors channel
C32_TwoErrorsUnreceived ==
    /\ Finished
    /\ consumer.errors = <<>>
    /\ Len(errCh.buf) = 2
    /\ ExitErrors # {}

---------------------------------------------------------------------------
(* Properties of the temperature lines.                                    *)

\* C33: temperature lines are routed by their label: a temperature line
\* labelled GPU (and not CPU or package), "GPU die temperature" included,
\* changes GPUTemperatureC and leaves CPUTemperatureC unchanged, and a line
\* labelled CPU, "CPU die temperature" included, changes CPUTemperatureC and
\* leaves GPUTemperatureC unchanged, in every parser state, a fresh one where
\* both are 0 included.
C33_TemperatureRoutedByLabel ==
    /\ [][Parsing(DOMAIN GPUTemperatureLines) =>
            /\ parser'.system.GPUTemperatureC = GPUTemperatureLines[lastCall'.line]
            /\ parser'.system.CPUTemperatureC = parser.system.CPUTemperatureC]_vars
    /\ [][Parsing(DOMAIN CPUTemperatureLines) =>
            /\ parser'.system.CPUTemperatureC = CPUTemperatureLines[lastCall'.line]
            /\ parser'.system.GPUTemperatureC = parser.system.GPUTemperatureC]_vars

---------------------------------------------------------------------------
(* Properties of the producer after it has observed the cancellation.      *)

\* the producer has taken the ctx.Done() case of its per-line check
CancelObserved == pc \in {"sendCancel", "waitCancel"} \/ CancelSent

\* C34: once the producer observes cancellation at its per-line check it
\* calls ParseLine for no further line and sends no further snapshot: the
\* accumulator is not mutated after that point, and the only remaining
\* actions are sending the cancellation error, calling wait and closing the
\* channels.
C34_NothingParsedAfterCancel ==
    /\ [](CancelObserved =>
             pc \in {"sendCancel", "waitCancel", "closeErr", "closeMetrics", "done"})
    /\ [][CancelObserved =>
            /\ parser' = parser
            /\ lastCall' = lastCall
            /\ emitted' = emitted
            /\ SnapshotsSent' = SnapshotsSent
            /\ Len(ErrorsSent') <= 1]_vars

\* a stream has ended by the cancellation branch after a snapshot; the line
\* scanned last was not parsed
C34_ScannedLineDropped ==
    /\ Finished
    /\ CancelSent
    /\ emitted # <<>>
    /\ scanned # lastCall.line
    /\ SnapshotsSent = emitted

---------------------------------------------------------------------------
(* Properties of normalizeConfig.                                          *)

\* args holds "-i" immediately followed by value
HasInterval(args, value) ==
    \E i \in 1..(Len(args) - 1) : args[i] = "-i" /\ args[i + 1] = value

\* the milliseconds of the windows, as powermetrics is given them
WindowMillis ==
    [w \in {500000} |-> "0"] @@ [w \in {500000000} |-> "500"]
    @@ [w \in {1000000000} |-> "1000"] @@ [w \in {2000000000} |-> "2000"]

\* the result of the first call is a normal form with the caller's slice intact
NormalForm ==
    /\ lastCall.normalized[1].SampleWindow > 0
    /\ lastCall.normalized[1].SampleWindow =
          IF lastCall.cfg.SampleWindow <= 0 THEN 1000000000
          ELSE lastCall.cfg.SampleWindow
    /\ lastCall.normalized[1].PowermetricsPath # ""
    /\ HasInterval(lastCall.normalized[1].PowermetricsArgs,
                   WindowMillis[lastCall.normalized[1].SampleWindow])
    /\ lastCall.caller = lastCall.cfg.PowermetricsArgs

\* C35 as stated: for every input configuration normalizeConfig returns a
\* configuration whose SampleWindow is positive (1s when the input is zero or
\* negative), whose path is non-empty and whose argument list contains "-i"
\* immediately followed by SampleWindow in milliseconds; applying
\* normalizeConfig to its own result returns the same configuration, and the
\* caller's argument slice is not modified.
C35_NormalizeConfigIdempotent ==
    /\ lastCall.calls >= 1 => NormalForm
    /\ lastCall.calls = 2 => lastCall.normalized[2] = lastCall.normalized[1]

---------------------------------------------------------------------------
(* Properties of parseTrailingValue.                                       *)

\* The calls that find a number and the number, in thousandths: the last
\* number of the text before the last occurrence of the unit, cut at its first
\* "(" and taken after its last ":".  Every other call finds none: the unit
\* does not occur, or no number is left in that text.
TrailingFound ==
    { <<"CPU Power: 15.5 W", "w", 15500>>,
      <<"CPU Power: 15.5 W (100%)", "w", 15500>>,
      <<"CPU Power: 15.5 W (100%)", "%", 15500>>,
      <<"GPU Busy: 45.2%", "%", 45200>>,
      <<"Total: 10.0 W out of 100.0 W", "w", 100000>>,
      <<"CPU Power: 954 mW", "w", 954000>>,
      <<"CPU Power: 954 mW", "mW", 954000>>,
      <<"GPU HW active frequency: 444 MHz", "mhz", 444000>>,
      <<"GPU die temperature: 45.2 C", "c", 45200>>,
      <<"E-Cluster HW active residency: 50% (600 MHz: 10%)", "mhz", 50000>>,
      <<"E-Cluster HW active residency: 50% (600 MHz: 10%)", "%", 50000>> }

TrailingExpected(line, suffix) ==
    IF \E t \in TrailingFound : t[1] = line /\ t[2] = suffix
    THEN [val |-> (CHOOSE t \in TrailingFound : t[1] = line /\ t[2] = suffix)[3],
          ok |-> TRUE]
    ELSE [val |-> 0, ok |-> FALSE]

=============================================================================
